---- MODULE Spec2Model ----
(***************************************************************************)
(* GhostWire relay (server/src/relay.rs): the connection registry, the     *)
(* broadcast fan-out with pruning, and the per-connection session made of  *)
(* the handler, its send_task and its recv_task.                           *)
(*                                                                         *)
(* A connection slot c stands for one accepted WebSocket, i.e. one call of *)
(* handle_websocket.  The registry lock is a tokio RwLock: a write section *)
(* has no await inside it, so it is one atomic step that needs the lock    *)
(* free of readers; the read section of broadcast is a synchronous loop    *)
(* that other threads interleave with, so it is one step per recipient.    *)
(* JoinHandle::abort only requests cancellation: the task is dropped at    *)
(* its next await that is not ready, until then it may keep running on     *)
(* another worker thread of the multi-threaded runtime.                    *)
(*                                                                         *)
(* send_task never leaves its loop because its channel closed: in its      *)
(* select! the heartbeat branch is always enabled, so `else => break` is   *)
(* not taken and the task ends only on a failed send or when it is         *)
(* dropped.                                                                *)
(*                                                                         *)
(* Spec is the relay from RelayState::new on; SpecRegistry its runs in     *)
(* which no text is sent; SpecFanout the fan-out among MaxConns registered *)
(* clients; FairSpec adds the scheduling assumptions for liveness and      *)
(* FairTasks also that an aborted task is dropped.  In SpecLock the lock   *)
(* is taken and dropped in steps of their own, and the count read for the  *)
(* log lines of register_client and unregister_client is part of them;     *)
(* FairLock adds that a call which can take a step is polled.              *)
(*                                                                         *)
(* GhostWire client (client/src): network_task, the bridge between the     *)
(* socket and the UI, with its two unbounded channels (commands in, events *)
(* out), and the part of the UI loop and of App that sends and shows       *)
(* messages.  The client of connection slot c is the program whose socket  *)
(* the relay accepted as c.  A WebSocket text is a JSON object: to_string  *)
(* and from_str are the serde conversions of WireMessage (renamed tags,    *)
(* defaulted channel, required fields).  A string is a sequence of words,  *)
(* a channel id the sequence of its parts between colons.                  *)
(*                                                                         *)
(* SpecBridge is one client against an arbitrary peer: the environment     *)
(* chooses the outcome of connect and of each write, and every frame read. *)
(* FairBridge adds that connect, the writes and main's wait make progress. *)
(* SpecSystem is two clients talking through the relay.  The UI loop       *)
(* alternates between draining the event queue and polling for a key, and  *)
(* once a second it updates the uptime and the activity history, whose     *)
(* previous total is a static of the process.  SpecTelemetry is a client   *)
(* with that clock running, SpecInbound one that receives the envelopes of *)
(* its peers on channels of every kind.                                    *)
(* SpecApp is an App under arbitrary calls of its methods and SpecCapacity *)
(* one whose global channel starts with almost MAX_MESSAGES messages.      *)
(***************************************************************************)
EXTENDS Integers, Sequences, FiniteSets, TLC

\* ---- bounds ----
MaxConns == 3        \* connections accepted during a run
MaxTexts == 1        \* text frames the relay reads during a run
MaxFanoutTexts == 3  \* text frames read in the fan-out runs (all clients connected)
MaxFairConns == 2    \* connections accepted in the runs checked for liveness
MaxFairTexts == 2    \* text frames read in the runs checked for liveness
MaxKeys == 2         \* commands the UI (or another holder of command_tx) issues to one bridge
MaxFrames == 2       \* frames the peer sends to one bridge
MaxSysTexts == 4     \* text frames the relay reads when two clients talk through it
MaxSysKeys == 1      \* messages each of the two users types
MaxAppKeys == 2      \* calls made for the user when the App alone is driven
MaxAppFrames == 2    \* calls made for inbound traffic when the App alone is driven
MaxRoom == 2         \* free places of the channel that starts near its capacity
MaxSeconds == 3      \* seconds that elapse while the UI loop runs, where its clock is followed
MaxInboundKeys == 1  \* messages the user types in the runs that follow the messages of the peers
MaxInboundFrames == 2 \* Message envelopes the peers send in these runs

Conn == 1..MaxConns
NoId == -1           \* "client_id not assigned yet"

VARIABLES
    clients,          \* RelayState.clients: ClientId -> sender handle (the connection whose queue it feeds)
    next_client_id,   \* RelayState.next_client_id
    hpc,              \* position of handle_websocket for each connection
    client_id,        \* the ClientId register_client returned to the connection
    spc,              \* send_task: "none" | "run" | "done" | "cancelled"
    rpc,              \* recv_task: "none" | "read" | "bc_loop" | "prune" | "done" | "cancelled"
    aborted,          \* tasks whose JoinHandle::abort was called: <<c, "send">> / <<c, "recv">>
    queue,            \* payloads in the connection's unbounded channel (kept as a record once the receiver is dropped)
    delivered,        \* text frames send_task wrote to the connection's socket
    todo,             \* broadcast: registry entries the loop has not visited yet
    failed_clients,   \* broadcast: ids whose tx.send returned Err
    ntexts,           \* texts the relay read from the connection (numbers its payloads)
    slots,            \* environment: connections that may still be accepted
    budget,           \* environment: text frames the clients may still send
    unregRuns,        \* history: how often unregister_client ran for the connection
    bcClosed,         \* history: ids whose queue was already closed when the broadcast in progress started
    lock,             \* the RwLock of RelayState.clients: the tasks holding its read side (r) and its write side (w)
    bpc,              \* network_task: "off" | "connect" | "auth" | "loop" | "done"
    link,             \* the client's transport: "up" | "down" (a write on a transport that is down fails)
    cmds,             \* command_rx: commands queued for the bridge
    events,           \* event_tx: every event the bridge emitted, in order
    applied,          \* how many of these events the UI loop has handled
    sent,             \* frames the bridge wrote to its transport, in order
    inbox,            \* frames the bridge read from its transport, in order
    app,              \* App, the state the UI shows
    keys,             \* environment: commands that may still be issued to the bridge
    frames,           \* environment: frames the peer may still send
    upc,              \* run_ui_loop and main after it: "off" | "drain" | "poll" | "tick" | "join" | "exited"
    LAST_TOTAL,       \* the static of update_network_activity, one per client process
    seconds           \* environment: how often a second may still elapse while the UI loop runs

relayVars == <<clients, next_client_id, hpc, client_id, spc, rpc, aborted, queue,
               delivered, todo, failed_clients, ntexts, slots, budget, unregRuns,
               bcClosed, lock>>

\* what only the once-a-second update of the UI loop reads and writes
clockVars == <<LAST_TOTAL, seconds>>

clientVars == <<bpc, link, cmds, events, applied, sent, inbox, app, keys, frames, upc,
                clockVars>>

vars == <<relayVars, clientVars>>

\* ---- helpers ----
Count(p, s) == Cardinality({i \in 1..Len(s) : s[i] = p})

\* BroadcastMessage { from, content }: the content of the n-th text of a client
Payload(from, n) == <<from, n>>

\* the receiving half of the channel lives in send_task; it is dropped when the task ends
RxOpen(c) == spc[c] \notin {"done", "cancelled"}

\* holders of clients.read(): a broadcast inside its fan-out loop
Readers == {c \in Conn : rpc[c] = "bc_loop"}

\* RwLock::new: nobody holds either side
NoLocks == [r |-> {}, w |-> {}]

\* clients.read().await is ready when no task holds the write side
ReadReady == lock.w = {}

\* clients.write().await is ready only when nobody holds either side
WriteReady == lock.r = {} /\ lock.w = {}

\* clients.read().await returned a guard to the task
AcquireRead(l, t) == [l EXCEPT !.r = @ \cup {t}]

\* mutant: the read guard is not dropped
ReleaseReadNone(l, t) == l

\* the read guard of the task is dropped
ReleaseRead(l, t) == [l EXCEPT !.r = @ \ {t}]

\* clients.write().await returned a guard to the task
AcquireWrite(l, t) == [l EXCEPT !.w = @ \cup {t}]

\* the write guard of the task is dropped
ReleaseWrite(l, t) == [l EXCEPT !.w = @ \ {t}]

\* connections whose register_client has returned
Completed == {c \in Conn : hpc[c] \in {"select", "unregister", "closed"}}

\* clients.insert(id, tx)
MapInsert(m, id, tx) == [k \in (DOMAIN m) \cup {id} |-> IF k = id THEN tx ELSE m[k]]

\* mutant: the entry is left in the map
MapRemoveNone(m, id) == m

\* clients.remove(&id)
MapRemove(m, id) == [k \in (DOMAIN m) \ {id} |-> m[k]]

\* mutant: the clean-up pass empties the registry
MapRemoveEvery(m, ids) == <<>>

\* for client_id in failed_clients { clients.remove(&client_id) }
MapRemoveAll(m, ids) == [k \in (DOMAIN m) \ ids |-> m[k]]

\* mutant: the counter is not incremented
NextIdSame(n) == n

\* *id += 1
NextIdValue(n) == n + 1

client_count == Cardinality(DOMAIN clients)

\* ---- client: wire protocol (app.rs) ----

\* the username given on the command line of the client of connection c
Username(c) ==
    CASE c = 1 -> "alice"
      [] c = 2 -> "bob"
      [] c = 3 -> "carol"
      [] OTHER -> "dave"

\* fn default_channel
default_channel == <<"global">>

\* chrono::Utc::now().timestamp() when an envelope is built
UtcNow == 1

\* struct WireMessage { msg_type, payload, channel, meta: MessageMeta }
WireMessage(t, p, ch, s, ts) ==
    [msg_type |-> t, payload |-> p, channel |-> ch,
     meta |-> [sender |-> s, timestamp |-> ts]]

\* #[serde(rename = ..)] of enum MessageType
Tag(t) ==
    CASE t = "Message" -> "MSG"
      [] t = "Auth" -> "AUTH"
      [] t = "System" -> "SYS"

Variant(tag) ==
    CASE tag = "MSG" -> "Message"
      [] tag = "AUTH" -> "Auth"
      [] tag = "SYS" -> "System"

Tags == {"MSG", "AUTH", "SYS"}

\* a JSON object: the keys it has, and their values (a key it lacks keeps a blank)
Json(ks, tag, p, ch, s, ts) ==
    [keys |-> ks, type |-> tag, payload |-> p, channel |-> ch,
     sender |-> s, timestamp |-> ts]

AllKeys == {"type", "payload", "channel", "meta"}

\* the fields of WireMessage without a serde default
RequiredKeys == {"type", "payload", "meta"}

NoJson == Json({}, "", <<>>, <<>>, "", 0)

\* serde_json::to_string(&WireMessage)
to_string(msg) ==
    Json(AllKeys, Tag(msg.msg_type), msg.payload, msg.channel,
         msg.meta.sender, msg.meta.timestamp)

\* serde_json::from_str::<WireMessage>(..).is_ok()
Decodes(j) == RequiredKeys \subseteq j.keys /\ j.type \in Tags

\* serde_json::from_str::<WireMessage>(..) of a text that decodes
from_str(j) ==
    WireMessage(Variant(j.type), j.payload,
                IF "channel" \in j.keys THEN j.channel ELSE default_channel,
                j.sender, j.timestamp)

\* tungstenite Message / the result of read.next()
Frame(k, j) == [kind |-> k, json |-> j]

TextFrame(j) == Frame("text", j)

CloseFrame == Frame("close", NoJson)

\* ---- client: events and commands (network.rs) ----

\* enum NetworkEvent (a field the variant lacks keeps a blank)
Event(e, u, con, ts, ch, m) ==
    [ev |-> e, username |-> u, content |-> con, timestamp |-> ts,
     channel_id |-> ch, message |-> m]

EvConnected == Event("Connected", "", <<>>, 0, <<>>, "")

EvDisconnected == Event("Disconnected", "", <<>>, 0, <<>>, "")

EvMessage(s, con, ts, ch) == Event("Message", s, con, ts, ch, "")

EvUserJoined(u) == Event("UserJoined", u, <<>>, 0, <<>>, "")

EvUserLeft(u) == Event("UserLeft", u, <<>>, 0, <<>>, "")

EvSystemMessage(con) == Event("SystemMessage", "", con, 0, <<>>, "")

EvError(m) == Event("Error", "", <<>>, 0, <<>>, m)

\* enum NetworkCommand
Command(k, con, ch, u) == [cmd |-> k, content |-> con, channel_id |-> ch, username |-> u]

CmdSendMessage(con, ch) == Command("SendMessage", con, ch, "")

CmdAuthenticate(u) == Command("Authenticate", <<>>, <<>>, u)

CmdDisconnect == Command("Disconnect", <<>>, <<>>, "")

\* the words of which the pattern is a substring
Within(pat) ==
    CASE pat = "joined" -> {"joined", "rejoined"}
      [] pat = "left" -> {"left"}

\* str::contains
Contains(p, pat) == \E i \in 1..Len(p) : p[i] \in Within(pat)

\* mutant: a join notice is not recognised
handle_wire_message_nojoin(msg) ==
    CASE msg.msg_type = "Message" ->
             EvMessage(msg.meta.sender, msg.payload, msg.meta.timestamp, msg.channel)
      [] msg.msg_type = "System" ->
             IF Contains(msg.payload, "left")
             THEN EvUserLeft(msg.meta.sender)
             ELSE EvSystemMessage(msg.payload)
      [] msg.msg_type = "Auth" -> EvUserJoined(msg.meta.sender)

\* fn handle_wire_message: the event sent for a decoded envelope
handle_wire_message(msg) ==
    CASE msg.msg_type = "Message" ->
             EvMessage(msg.meta.sender, msg.payload, msg.meta.timestamp, msg.channel)
      [] msg.msg_type = "System" ->
             IF Contains(msg.payload, "joined")
             THEN EvUserJoined(msg.meta.sender)
             ELSE IF Contains(msg.payload, "left")
                  THEN EvUserLeft(msg.meta.sender)
                  ELSE EvSystemMessage(msg.payload)
      [] msg.msg_type = "Auth" -> EvUserJoined(msg.meta.sender)

\* mutant: the Auth envelope does not name its sender
AuthEnvelopeAnon(u) == WireMessage("Auth", <<u>>, <<"global">>, "", UtcNow)

\* the envelope network_task builds for its own identity
AuthEnvelope(u) == WireMessage("Auth", <<u>>, <<"global">>, u, UtcNow)

\* mutant: every message is addressed to the global channel
MessageEnvelopeGlobal(con, ch, u) == WireMessage("Message", con, <<"global">>, u, UtcNow)

\* the envelope network_task builds for SendMessage { content, channel_id }
MessageEnvelope(con, ch, u) == WireMessage("Message", con, ch, u, UtcNow)

\* ---- client: App (app.rs) ----

MAX_MESSAGES == 1000

\* vec![0; 60]: the length of Telemetry.network_activity
ActivitySlots == 60

\* struct ChatMessage (without its local timestamp)
ChatMessage(s, con, sys) == [sender |-> s, content |-> con, is_system |-> sys]

\* ChatMessage::system
SystemChat(con) == ChatMessage("SYSTEM", con, TRUE)

\* struct Channel
Channel(i, other) == [id |-> i, other_user |-> other, messages |-> <<>>, unread_count |-> 0]

\* the usernames of the model in the order of Rust's str comparison
NameOrder == <<"", "alice", "bob", "carol", "dave", "ghost", "server">>

Names == {NameOrder[k] : k \in 1..Len(NameOrder)}

\* mutant: no name is ever before another
BeforeNever(a, b) == FALSE

\* current_user < other_user.as_str()
Before(a, b) ==
    LET rank(n) == CHOOSE k \in 1..Len(NameOrder) : NameOrder[k] = n
    IN rank(a) < rank(b)

\* Channel::dm: the two names in alphabetical order
ChannelDm(current_user, other_user) ==
    Channel(IF Before(current_user, other_user)
            THEN <<"dm", current_user, other_user>>
            ELSE <<"dm", other_user, current_user>>,
            other_user)

\* mutant: nothing is ever evicted
ChannelAddMessageKeep(ch, msg) == [ch EXCEPT !.messages = Append(@, msg)]

\* Channel::add_message
ChannelAddMessage(ch, msg) ==
    [ch EXCEPT !.messages =
        IF Len(@) + 1 > MAX_MESSAGES THEN Tail(Append(@, msg)) ELSE Append(@, msg)]

\* App::new
AppNew(u) ==
    [username |-> u,
     channels |-> [i \in {<<"global">>} |->
                      ChannelAddMessage(Channel(<<"global">>, ""),
                          SystemChat(<<"Welcome", "to", "GhostWire,", u>>))],
     active_channel |-> <<"global">>,
     users |-> <<>>,
     is_connected |-> FALSE,
     should_quit |-> FALSE,
     messages_sent |-> 0,
     messages_received |-> 0,
     connection_uptime |-> 0,
     network_activity |-> [k \in 1..ActivitySlots |-> 0]]

\* App::add_message: to the active channel
add_message(a, msg) ==
    IF a.active_channel \in DOMAIN a.channels
    THEN [a EXCEPT !.channels[a.active_channel] = ChannelAddMessage(@, msg)]
    ELSE a

\* channel_id.starts_with("dm:")
IsDm(i) == Len(i) >= 2 /\ i[1] = "dm"

\* mutant: the insertion is lost
ChannelInsertNone(chs, i, ch) == chs

\* HashMap::insert
ChannelInsert(chs, i, ch) == [k \in (DOMAIN chs) \cup {i} |-> IF k = i THEN ch ELSE chs[k]]

\* mutant: the unread count grows for the active channel too
add_message_to_channel_always(a, i, msg) ==
    LET a1 == IF IsDm(i) /\ i \notin DOMAIN a.channels /\ Len(i) = 3
              THEN [a EXCEPT !.channels =
                       ChannelInsert(@, i,
                           ChannelDm(a.username,
                                     IF i[2] = a.username THEN i[3] ELSE i[2]))]
              ELSE a
    IN IF i \in DOMAIN a1.channels
       THEN [a1 EXCEPT !.channels[i] =
                [ChannelAddMessage(@, msg) EXCEPT !.unread_count = @ + 1]]
       ELSE a1

\* App::add_message_to_channel
add_message_to_channel(a, i, msg) ==
    LET a1 == IF IsDm(i) /\ i \notin DOMAIN a.channels /\ Len(i) = 3
              THEN [a EXCEPT !.channels =
                       ChannelInsert(@, i,
                           ChannelDm(a.username,
                                     IF i[2] = a.username THEN i[3] ELSE i[2]))]
              ELSE a
    IN IF i \in DOMAIN a1.channels
       THEN [a1 EXCEPT !.channels[i] =
                [ChannelAddMessage(@, msg) EXCEPT !.unread_count =
                    IF i # a1.active_channel THEN @ + 1 ELSE @]]
       ELSE a1

InRoster(a, u) == \E i \in 1..Len(a.users) : a.users[i] = u

\* mutant: every name is pushed
add_user_any(a, u) ==
    add_message([a EXCEPT !.users = Append(@, u)],
                SystemChat(<<u, "joined", "the", "chat">>))

\* App::add_user
add_user(a, u) ==
    IF u = a.username \/ InRoster(a, u)
    THEN a
    ELSE add_message([a EXCEPT !.users = Append(@, u)],
                     SystemChat(<<u, "joined", "the", "chat">>))

\* App::remove_user
remove_user(a, u) ==
    IF InRoster(a, u)
    THEN add_message([a EXCEPT !.users = SelectSeq(@, LAMBDA x : x # u)],
                     SystemChat(<<u, "left", "the", "chat">>))
    ELSE a

\* App::set_connected
set_connected(a, connected) ==
    IF connected # a.is_connected
    THEN add_message([a EXCEPT !.is_connected = connected],
                     SystemChat(<<IF connected THEN "Connected" ELSE "Disconnected">>))
    ELSE a

\* mutant: the id becomes the active one whether or not it is a channel
switch_channel_any(a, i) == [a EXCEPT !.active_channel = i]

\* mutant: the unread count of the channel is kept
switch_channel_keep(a, i) ==
    IF i \in DOMAIN a.channels THEN [a EXCEPT !.active_channel = i] ELSE a

\* App::switch_channel
switch_channel(a, i) ==
    IF i \in DOMAIN a.channels
    THEN [a EXCEPT !.active_channel = i, !.channels[i].unread_count = 0]
    ELSE a

\* App::open_dm
open_dm(a, other_user) ==
    LET channel == ChannelDm(a.username, other_user)
        a1 == IF channel.id \notin DOMAIN a.channels
              THEN [a EXCEPT !.channels = ChannelInsert(@, channel.id, channel)]
              ELSE a
    IN switch_channel(a1, channel.id)

\* App::increment_uptime
increment_uptime(a, secs) == [a EXCEPT !.connection_uptime = @ + secs]

\* mutant: the history is rotated the other way
rotate_right(s) == IF s = <<>> THEN s ELSE <<s[Len(s)]>> \o SubSeq(s, 1, Len(s) - 1)

\* slice::rotate_left(1)
rotate_left(s) == IF s = <<>> THEN s ELSE Tail(s) \o <<Head(s)>>

\* u64::saturating_sub
saturating_sub(x, y) == IF x > y THEN x - y ELSE 0

\* LAST_TOTAL = current_total
LastTotalAfter(a, last) == a.messages_sent + a.messages_received

\* App::update_network_activity, with the value its static LAST_TOTAL holds
update_network_activity(a, last) ==
    LET current_total == a.messages_sent + a.messages_received
        rotated == rotate_left(a.network_activity)
    IN [a EXCEPT !.network_activity =
           IF rotated = <<>>
           THEN rotated
           ELSE [rotated EXCEPT ![Len(rotated)] = saturating_sub(current_total, last)]]

\* fn handle_network_event (main.rs)
handle_network_event(a, e) ==
    CASE e.ev = "Connected" -> set_connected(a, TRUE)
      [] e.ev = "Disconnected" -> set_connected(a, FALSE)
      [] e.ev = "Message" ->
             LET a1 == IF ~InRoster(a, e.username) /\ e.username # a.username
                       THEN add_user(a, e.username)
                       ELSE a
                 a2 == add_message_to_channel(a1, e.channel_id,
                           ChatMessage(e.username, e.content, FALSE))
             IN [a2 EXCEPT !.messages_received = @ + 1]
      [] e.ev = "UserJoined" -> add_user(a, e.username)
      [] e.ev = "UserLeft" -> remove_user(a, e.username)
      [] e.ev = "SystemMessage" -> add_message(a, SystemChat(e.content))
      [] e.ev = "Error" -> add_message(a, SystemChat(<<"Error:", e.message>>))

\* no client program runs
ClientsOff ==
    /\ bpc = [c \in Conn |-> "off"]
    /\ link = [c \in Conn |-> "down"]
    /\ cmds = [c \in Conn |-> <<>>]
    /\ events = [c \in Conn |-> <<>>]
    /\ applied = [c \in Conn |-> 0]
    /\ sent = [c \in Conn |-> <<>>]
    /\ inbox = [c \in Conn |-> <<>>]
    /\ app = [c \in Conn |-> AppNew(Username(c))]
    /\ keys = [c \in Conn |-> 0]
    /\ frames = [c \in Conn |-> 0]
    /\ upc = [c \in Conn |-> "off"]
    /\ LAST_TOTAL = [c \in Conn |-> 0]
    /\ seconds = [c \in Conn |-> 0]

Init ==
    /\ clients = <<>>
    /\ next_client_id = 0
    /\ hpc = [c \in Conn |-> "idle"]
    /\ client_id = [c \in Conn |-> NoId]
    /\ spc = [c \in Conn |-> "none"]
    /\ rpc = [c \in Conn |-> "none"]
    /\ aborted = {}
    /\ queue = [c \in Conn |-> <<>>]
    /\ delivered = [c \in Conn |-> <<>>]
    /\ todo = [c \in Conn |-> {}]
    /\ failed_clients = [c \in Conn |-> {}]
    /\ ntexts = [c \in Conn |-> 0]
    /\ slots = MaxConns
    /\ budget = MaxTexts
    /\ unregRuns = [c \in Conn |-> 0]
    /\ bcClosed = [c \in Conn |-> {}]
    /\ lock = NoLocks
    /\ ClientsOff

\* ---- handle_websocket: register_client ----

\* a socket is accepted and handle_websocket starts (slots are taken in order)
Accept(c) ==
    /\ hpc[c] = "idle"
    /\ \A d \in Conn : d < c => hpc[d] # "idle"
    /\ slots > 0
    /\ slots' = slots - 1
    /\ hpc' = [hpc EXCEPT ![c] = "next_id"]
    /\ UNCHANGED <<clients, next_client_id, client_id, spc, rpc, aborted, queue,
                   delivered, todo, failed_clients, ntexts, budget, unregRuns,
                   bcClosed>>
    /\ UNCHANGED <<lock, clientVars>>

\* next_id: read and increment under the counter's write lock
next_id(c) ==
    /\ hpc[c] = "next_id"
    /\ client_id' = [client_id EXCEPT ![c] = next_client_id]
    /\ next_client_id' = NextIdValue(next_client_id)
    /\ hpc' = [hpc EXCEPT ![c] = "insert"]
    /\ UNCHANGED <<clients, spc, rpc, aborted, queue, delivered, todo,
                   failed_clients, ntexts, slots, budget, unregRuns, bcClosed>>
    /\ UNCHANGED <<lock, clientVars>>

\* register_client: clients.write().await.insert(id, tx)
register_insert(c) ==
    /\ hpc[c] = "insert"
    /\ WriteReady
    /\ clients' = MapInsert(clients, client_id[c], c)
    /\ hpc' = [hpc EXCEPT ![c] = "spawn"]
    /\ UNCHANGED <<next_client_id, client_id, spc, rpc, aborted, queue,
                   delivered, todo, failed_clients, ntexts, slots, budget,
                   unregRuns, bcClosed>>
    /\ UNCHANGED <<lock, clientVars>>

\* register_client returns (id, rx); the handler splits the socket and spawns
\* send_task and recv_task
register_return(c) ==
    /\ hpc[c] = "spawn"
    /\ hpc' = [hpc EXCEPT ![c] = "select"]
    /\ spc' = [spc EXCEPT ![c] = "run"]
    /\ rpc' = [rpc EXCEPT ![c] = "read"]
    /\ UNCHANGED <<clients, next_client_id, client_id, aborted, queue,
                   delivered, todo, failed_clients, ntexts, slots, budget,
                   unregRuns, bcClosed>>
    /\ UNCHANGED <<lock, clientVars>>

\* ---- send_task ----

\* Some(msg) = broadcast_rx.recv() => ws_tx.send(Message::Text(msg)) succeeded
send_forward(c) ==
    /\ spc[c] = "run"
    /\ queue[c] # <<>>
    /\ delivered' = [delivered EXCEPT ![c] = Append(@, Head(queue[c]))]
    /\ queue' = [queue EXCEPT ![c] = Tail(@)]
    /\ UNCHANGED <<clients, next_client_id, hpc, client_id, spc, rpc, aborted,
                   todo, failed_clients, ntexts, slots, budget, unregRuns,
                   bcClosed>>
    /\ UNCHANGED <<lock, clientVars>>

\* ws_tx.send(..).await.is_err() => break, for the ping or for a text frame;
\* the task ends and drops broadcast_rx (a text whose send failed is lost with
\* the rest of the channel: queue keeps it as a record of what was enqueued)
send_fail(c) ==
    /\ spc[c] = "run"
    /\ spc' = [spc EXCEPT ![c] = "done"]
    /\ UNCHANGED <<clients, next_client_id, hpc, client_id, rpc, aborted, queue,
                   delivered, todo, failed_clients, ntexts, slots, budget,
                   unregRuns, bcClosed>>
    /\ UNCHANGED <<lock, clientVars>>

\* the runtime drops an aborted send_task at an await, and broadcast_rx with it
send_cancelled(c) ==
    /\ spc[c] = "run"
    /\ <<c, "send">> \in aborted
    /\ spc' = [spc EXCEPT ![c] = "cancelled"]
    /\ UNCHANGED <<clients, next_client_id, hpc, client_id, rpc, aborted, queue,
                   delivered, todo, failed_clients, ntexts, slots, budget,
                   unregRuns, bcClosed>>
    /\ UNCHANGED <<lock, clientVars>>

\* ---- recv_task and RelayState::broadcast ----

\* mutant: the origin is not skipped
IsOriginNever(id, from) == FALSE

\* if client_id == msg.from { continue }
IsOrigin(id, from) == id = from

\* mutant: the payload is enqueued twice
EnqueueTwice(q, content) == Append(Append(q, content), content)

\* mutant: the payload is put at the front of the queue
EnqueueFront(q, content) == <<content>> \o q

\* tx.send(msg.content.clone()) on an open channel
Enqueue(q, content) == Append(q, content)

\* mutant: a failed send is not recorded
RecordFailureNone(failed, id) == failed

\* failed_clients.push(client_id)
RecordFailure(failed, id) == failed \cup {id}

\* ids registered so far whose receiver is gone, other than the caller's
ClosedIds(c) ==
    {client_id[d] : d \in {e \in Conn \ {c} :
        hpc[e] \in {"spawn", "select", "unregister", "closed"}
        /\ ~RxOpen(e)}}

\* Ok(Message::Text(text)): broadcast starts and takes clients.read()
recv_text(c) ==
    /\ rpc[c] = "read"
    /\ budget > 0
    /\ ReadReady
    /\ lock' = AcquireRead(lock, <<c, "recv">>)
    /\ budget' = budget - 1
    /\ ntexts' = [ntexts EXCEPT ![c] = @ + 1]
    /\ todo' = [todo EXCEPT ![c] = DOMAIN clients]
    /\ failed_clients' = [failed_clients EXCEPT ![c] = {}]
    /\ bcClosed' = [bcClosed EXCEPT ![c] = ClosedIds(c)]
    /\ rpc' = [rpc EXCEPT ![c] = "bc_loop"]
    /\ UNCHANGED <<clients, next_client_id, hpc, client_id, spc, aborted, queue,
                   delivered, slots, unregRuns>>
    /\ UNCHANGED clientVars

\* one iteration of `for (&client_id, tx) in clients.iter()`
broadcast_send(c, id) ==
    /\ rpc[c] = "bc_loop"
    /\ id \in todo[c]
    /\ todo' = [todo EXCEPT ![c] = @ \ {id}]
    /\ IF IsOrigin(id, client_id[c])
       THEN UNCHANGED <<queue, failed_clients>>
       ELSE IF RxOpen(clients[id])
            THEN /\ queue' = [queue EXCEPT ![clients[id]] =
                                 Enqueue(@, Payload(client_id[c], ntexts[c]))]
                 /\ UNCHANGED failed_clients
            ELSE /\ failed_clients' = [failed_clients EXCEPT ![c] = RecordFailure(@, id)]
                 /\ UNCHANGED queue
    /\ UNCHANGED <<clients, next_client_id, hpc, client_id, spc, rpc, aborted,
                   delivered, ntexts, slots, budget, unregRuns, bcClosed>>
    /\ UNCHANGED <<lock, clientVars>>

\* drop(clients); broadcast returns when nothing failed
broadcast_release(c) ==
    /\ rpc[c] = "bc_loop"
    /\ todo[c] = {}
    /\ lock' = ReleaseRead(lock, <<c, "recv">>)
    /\ rpc' = [rpc EXCEPT ![c] = IF failed_clients[c] = {} THEN "read" ELSE "prune"]
    /\ bcClosed' = [bcClosed EXCEPT ![c] = IF failed_clients[c] = {} THEN {} ELSE @]
    /\ UNCHANGED <<clients, next_client_id, hpc, client_id, spc, aborted, queue,
                   delivered, todo, failed_clients, ntexts, slots, budget,
                   unregRuns>>
    /\ UNCHANGED clientVars

\* the clean-up pass under clients.write()
broadcast_prune(c) ==
    /\ rpc[c] = "prune"
    /\ WriteReady
    /\ clients' = MapRemoveAll(clients, failed_clients[c])
    /\ failed_clients' = [failed_clients EXCEPT ![c] = {}]
    /\ bcClosed' = [bcClosed EXCEPT ![c] = {}]
    /\ rpc' = [rpc EXCEPT ![c] = "read"]
    /\ UNCHANGED <<next_client_id, hpc, client_id, spc, aborted, queue,
                   delivered, todo, ntexts, slots, budget, unregRuns>>
    /\ UNCHANGED <<lock, clientVars>>

\* Ok(Message::Close(_)), Err(e) or the end of the stream: the loop is left
recv_end(c) ==
    /\ rpc[c] = "read"
    /\ rpc' = [rpc EXCEPT ![c] = "done"]
    /\ UNCHANGED <<clients, next_client_id, hpc, client_id, spc, aborted, queue,
                   delivered, todo, failed_clients, ntexts, slots, budget,
                   unregRuns, bcClosed>>
    /\ UNCHANGED <<lock, clientVars>>

\* the runtime drops an aborted recv_task at one of its awaits
recv_cancelled(c) ==
    /\ rpc[c] \in {"read", "prune"}
    /\ <<c, "recv">> \in aborted
    /\ <<c, "recv">> \notin lock.w
    /\ rpc' = [rpc EXCEPT ![c] = "cancelled"]
    /\ UNCHANGED <<clients, next_client_id, hpc, client_id, spc, aborted, queue,
                   delivered, todo, failed_clients, ntexts, slots, budget,
                   unregRuns, bcClosed>>
    /\ UNCHANGED <<lock, clientVars>>

\* ---- handle_websocket: select and unregister_client ----

\* mutant: the sibling task is not aborted
AbortNone(set, c, task) == set

\* JoinHandle::abort()
Abort(set, c, task) == set \cup {<<c, task>>}

\* mutant: select! does not wait for a task to end
TaskFinishedAlways(pc) == TRUE

\* a JoinHandle polled by select! is ready once its task has ended
TaskFinished(pc) == pc = "done"

\* _ = &mut send_task => recv_task.abort()
select_send(c) ==
    /\ hpc[c] = "select"
    /\ TaskFinished(spc[c])
    /\ aborted' = Abort(aborted, c, "recv")
    /\ hpc' = [hpc EXCEPT ![c] = "unregister"]
    /\ UNCHANGED <<clients, next_client_id, client_id, spc, rpc, queue,
                   delivered, todo, failed_clients, ntexts, slots, budget,
                   unregRuns, bcClosed>>
    /\ UNCHANGED <<lock, clientVars>>

\* _ = &mut recv_task => send_task.abort()
select_recv(c) ==
    /\ hpc[c] = "select"
    /\ TaskFinished(rpc[c])
    /\ aborted' = Abort(aborted, c, "send")
    /\ hpc' = [hpc EXCEPT ![c] = "unregister"]
    /\ UNCHANGED <<clients, next_client_id, client_id, spc, rpc, queue,
                   delivered, todo, failed_clients, ntexts, slots, budget,
                   unregRuns, bcClosed>>
    /\ UNCHANGED <<lock, clientVars>>

\* unregister_client: clients.write().await.remove(&id); handle_websocket ends
unregister_client(c) ==
    /\ hpc[c] = "unregister"
    /\ WriteReady
    /\ clients' = MapRemove(clients, client_id[c])
    /\ unregRuns' = [unregRuns EXCEPT ![c] = @ + 1]
    /\ hpc' = [hpc EXCEPT ![c] = "closed"]
    /\ UNCHANGED <<next_client_id, client_id, spc, rpc, aborted, queue,
                   delivered, todo, failed_clients, ntexts, slots, budget,
                   bcClosed>>
    /\ UNCHANGED <<lock, clientVars>>

\* ---- specifications ----

Next ==
    \E c \in Conn :
        \/ Accept(c)
        \/ next_id(c)
        \/ register_insert(c)
        \/ register_return(c)
        \/ send_forward(c)
        \/ send_fail(c)
        \/ send_cancelled(c)
        \/ recv_text(c)
        \/ \E id \in todo[c] : broadcast_send(c, id)
        \/ broadcast_release(c)
        \/ broadcast_prune(c)
        \/ recv_end(c)
        \/ recv_cancelled(c)
        \/ select_send(c)
        \/ select_recv(c)
        \/ unregister_client(c)

\* the relay from its construction: connections come, talk and go
Spec == Init /\ [][Next]_vars

\* sequences of register/unregister only: the clients send no text
RegistryInit ==
    /\ clients = <<>>
    /\ next_client_id = 0
    /\ hpc = [c \in Conn |-> "idle"]
    /\ client_id = [c \in Conn |-> NoId]
    /\ spc = [c \in Conn |-> "none"]
    /\ rpc = [c \in Conn |-> "none"]
    /\ aborted = {}
    /\ queue = [c \in Conn |-> <<>>]
    /\ delivered = [c \in Conn |-> <<>>]
    /\ todo = [c \in Conn |-> {}]
    /\ failed_clients = [c \in Conn |-> {}]
    /\ ntexts = [c \in Conn |-> 0]
    /\ slots = MaxConns
    /\ budget = 0
    /\ unregRuns = [c \in Conn |-> 0]
    /\ bcClosed = [c \in Conn |-> {}]
    /\ lock = NoLocks
    /\ ClientsOff

RegistryNext ==
    \E c \in Conn :
        \/ Accept(c)
        \/ next_id(c)
        \/ register_insert(c)
        \/ register_return(c)
        \/ send_fail(c)
        \/ send_cancelled(c)
        \/ recv_end(c)
        \/ recv_cancelled(c)
        \/ select_send(c)
        \/ select_recv(c)
        \/ unregister_client(c)

SpecRegistry == RegistryInit /\ [][RegistryNext]_vars

\* the fan-out with every connection registered and both its tasks spawned
\* (the state Spec reaches once MaxConns registrations have returned in order)
FanoutInit ==
    /\ clients = [id \in 0..(MaxConns - 1) |-> id + 1]
    /\ next_client_id = MaxConns
    /\ hpc = [c \in Conn |-> "select"]
    /\ client_id = [c \in Conn |-> c - 1]
    /\ spc = [c \in Conn |-> "run"]
    /\ rpc = [c \in Conn |-> "read"]
    /\ aborted = {}
    /\ queue = [c \in Conn |-> <<>>]
    /\ delivered = [c \in Conn |-> <<>>]
    /\ todo = [c \in Conn |-> {}]
    /\ failed_clients = [c \in Conn |-> {}]
    /\ ntexts = [c \in Conn |-> 0]
    /\ slots = 0
    /\ budget = MaxFanoutTexts
    /\ unregRuns = [c \in Conn |-> 0]
    /\ bcClosed = [c \in Conn |-> {}]
    /\ lock = NoLocks
    /\ ClientsOff

FanoutNext ==
    \E c \in Conn :
        \/ send_forward(c)
        \/ send_fail(c)
        \/ recv_text(c)
        \/ \E id \in todo[c] : broadcast_send(c, id)
        \/ broadcast_release(c)
        \/ broadcast_prune(c)

SpecFanout == FanoutInit /\ [][FanoutNext]_vars

\* liveness: the tokio scheduler polls every ready task, and the RwLock serves
\* its waiters in order, so a waiting writer is not overtaken forever
FairInit ==
    /\ clients = <<>>
    /\ next_client_id = 0
    /\ hpc = [c \in Conn |-> "idle"]
    /\ client_id = [c \in Conn |-> NoId]
    /\ spc = [c \in Conn |-> "none"]
    /\ rpc = [c \in Conn |-> "none"]
    /\ aborted = {}
    /\ queue = [c \in Conn |-> <<>>]
    /\ delivered = [c \in Conn |-> <<>>]
    /\ todo = [c \in Conn |-> {}]
    /\ failed_clients = [c \in Conn |-> {}]
    /\ ntexts = [c \in Conn |-> 0]
    /\ slots = MaxFairConns
    /\ budget = MaxFairTexts
    /\ unregRuns = [c \in Conn |-> 0]
    /\ bcClosed = [c \in Conn |-> {}]
    /\ lock = NoLocks
    /\ ClientsOff

Fairness ==
    \A c \in Conn :
        /\ WF_vars(\E id \in todo[c] : broadcast_send(c, id))
        /\ WF_vars(broadcast_release(c))
        /\ WF_vars(select_send(c))
        /\ WF_vars(select_recv(c))
        /\ SF_vars(unregister_client(c))

FairSpec == FairInit /\ [][Next]_vars /\ Fairness

\* the runtime does drop a task whose abort was requested: it is cancelled
\* the next time it is polled at one of its awaits
TaskFairness ==
    \A c \in Conn :
        /\ WF_vars(send_cancelled(c))
        /\ WF_vars(recv_cancelled(c))

FairTasks == FairInit /\ [][Next]_vars /\ Fairness /\ TaskFairness

\* ---- the registry lock, acquisition by acquisition ----

\* the task is at clients.write().await
WaitsWrite(c, task) ==
    CASE task = "handler" -> hpc[c] \in {"insert", "unregister"}
      [] task = "recv" -> rpc[c] = "prune"

\* clients.write().await returns the guard
write_lock(c, task) ==
    /\ WaitsWrite(c, task)
    /\ WriteReady
    /\ lock' = AcquireWrite(lock, <<c, task>>)
    /\ UNCHANGED <<clients, next_client_id, hpc, client_id, spc, rpc, aborted, queue,
                   delivered, todo, failed_clients, ntexts, slots, budget, unregRuns,
                   bcClosed>>
    /\ UNCHANGED clientVars

\* register_client: insert(id, tx) under the guard, which the end of the
\* statement drops
insert_held(c) ==
    /\ hpc[c] = "insert"
    /\ <<c, "handler">> \in lock.w
    /\ clients' = MapInsert(clients, client_id[c], c)
    /\ lock' = ReleaseWrite(lock, <<c, "handler">>)
    /\ hpc' = [hpc EXCEPT ![c] = "reg_log"]
    /\ UNCHANGED <<next_client_id, client_id, spc, rpc, aborted, queue,
                   delivered, todo, failed_clients, ntexts, slots, budget,
                   unregRuns, bcClosed>>
    /\ UNCHANGED clientVars

\* unregister_client: remove(&id) under the guard, which the end of the
\* statement drops
unregister_held(c) ==
    /\ hpc[c] = "unregister"
    /\ <<c, "handler">> \in lock.w
    /\ clients' = MapRemove(clients, client_id[c])
    /\ unregRuns' = [unregRuns EXCEPT ![c] = @ + 1]
    /\ lock' = ReleaseWrite(lock, <<c, "handler">>)
    /\ hpc' = [hpc EXCEPT ![c] = "unreg_log"]
    /\ UNCHANGED <<next_client_id, client_id, spc, rpc, aborted, queue,
                   delivered, todo, failed_clients, ntexts, slots, budget,
                   bcClosed>>
    /\ UNCHANGED clientVars

\* info!(.., self.clients.read().await.len()): the read guard is taken
log_read(c) ==
    /\ hpc[c] \in {"reg_log", "unreg_log"}
    /\ <<c, "handler">> \notin lock.r
    /\ ReadReady
    /\ lock' = AcquireRead(lock, <<c, "handler">>)
    /\ UNCHANGED <<clients, next_client_id, hpc, client_id, spc, rpc, aborted, queue,
                   delivered, todo, failed_clients, ntexts, slots, budget, unregRuns,
                   bcClosed>>
    /\ UNCHANGED clientVars

\* the line is logged and the guard dropped: register_client returns, or
\* unregister_client and with it handle_websocket
log_done(c) ==
    /\ hpc[c] \in {"reg_log", "unreg_log"}
    /\ <<c, "handler">> \in lock.r
    /\ lock' = ReleaseRead(lock, <<c, "handler">>)
    /\ hpc' = [hpc EXCEPT ![c] = IF @ = "reg_log" THEN "spawn" ELSE "closed"]
    /\ UNCHANGED <<clients, next_client_id, client_id, spc, rpc, aborted, queue,
                   delivered, todo, failed_clients, ntexts, slots, budget,
                   unregRuns, bcClosed>>
    /\ UNCHANGED clientVars

\* broadcast: the removals under the guard, which the end of the block drops
prune_held(c) ==
    /\ rpc[c] = "prune"
    /\ <<c, "recv">> \in lock.w
    /\ clients' = MapRemoveAll(clients, failed_clients[c])
    /\ failed_clients' = [failed_clients EXCEPT ![c] = {}]
    /\ bcClosed' = [bcClosed EXCEPT ![c] = {}]
    /\ lock' = ReleaseWrite(lock, <<c, "recv">>)
    /\ rpc' = [rpc EXCEPT ![c] = "read"]
    /\ UNCHANGED <<next_client_id, hpc, client_id, spc, aborted, queue,
                   delivered, todo, ntexts, slots, budget, unregRuns>>
    /\ UNCHANGED clientVars

LockNext ==
    \E c \in Conn :
        \/ Accept(c)
        \/ next_id(c)
        \/ \E task \in {"handler", "recv"} : write_lock(c, task)
        \/ insert_held(c)
        \/ log_read(c)
        \/ log_done(c)
        \/ register_return(c)
        \/ send_forward(c)
        \/ send_fail(c)
        \/ send_cancelled(c)
        \/ recv_text(c)
        \/ \E id \in todo[c] : broadcast_send(c, id)
        \/ broadcast_release(c)
        \/ prune_held(c)
        \/ recv_end(c)
        \/ recv_cancelled(c)
        \/ select_send(c)
        \/ select_recv(c)
        \/ unregister_held(c)

\* the relay with every acquisition and release of the registry lock a step
SpecLock == FairInit /\ [][LockNext]_vars

\* a step inside a register, an unregister or a broadcast call
OperationStep ==
    \E c \in Conn :
        \/ next_id(c)
        \/ \E task \in {"handler", "recv"} : write_lock(c, task)
        \/ insert_held(c)
        \/ unregister_held(c)
        \/ prune_held(c)
        \/ log_read(c)
        \/ log_done(c)
        \/ \E id \in todo[c] : broadcast_send(c, id)
        \/ broadcast_release(c)

\* the scheduler polls a ready task: while some call can take a step, one of
\* them does (which one is left open, so nothing is assumed about the order
\* in which the RwLock serves its waiters)
LockFairness == WF_vars(OperationStep)

FairLock == FairInit /\ [][LockNext]_vars /\ LockFairness

\* ---- client: network_task (network.rs) ----

\* write.send(frame).await: the frame reaches the transport only if it returns Ok
Written(log, ok, f) == IF ok THEN Append(log, f) ELSE log

\* the outcome ok of a write: a transport that is down takes no frame, and a
\* failed write leaves it down
Write(c, ok, f) ==
    /\ ok => link[c] = "up"
    /\ sent' = [sent EXCEPT ![c] = Written(@, ok, f)]
    /\ link' = [link EXCEPT ![c] = IF ok THEN @ ELSE "down"]

\* connect_async returned Ok: Connected is emitted, the stream is split
connect_ok(c) ==
    /\ bpc[c] = "connect"
    /\ events' = [events EXCEPT ![c] = Append(@, EvConnected)]
    /\ link' = [link EXCEPT ![c] = "up"]
    /\ bpc' = [bpc EXCEPT ![c] = "auth"]
    /\ UNCHANGED <<cmds, applied, sent, inbox, app, keys, frames>>
    /\ UNCHANGED <<upc, clockVars, relayVars>>

\* mutant: a failed connect is announced as a connection that then broke
connect_fail_connected(c) ==
    /\ bpc[c] = "connect"
    /\ events' = [events EXCEPT ![c] = @ \o <<EvConnected, EvError("Failed to connect")>>]
    /\ bpc' = [bpc EXCEPT ![c] = "done"]
    /\ UNCHANGED <<link, cmds, applied, sent, inbox, app, keys, frames>>
    /\ UNCHANGED <<upc, clockVars, relayVars>>

\* connect_async returned Err: one Error event, then return
connect_fail(c) ==
    /\ bpc[c] = "connect"
    /\ events' = [events EXCEPT ![c] = Append(@, EvError("Failed to connect"))]
    /\ bpc' = [bpc EXCEPT ![c] = "done"]
    /\ UNCHANGED <<link, cmds, applied, sent, inbox, app, keys, frames>>
    /\ UNCHANGED <<upc, clockVars, relayVars>>

\* the initial authentication message; a failed write ends the task
auth_write(c, ok) ==
    /\ bpc[c] = "auth"
    /\ Write(c, ok, TextFrame(to_string(AuthEnvelope(Username(c)))))
    /\ events' = [events EXCEPT ![c] =
                     IF ok THEN @ ELSE Append(@, EvError("Failed to authenticate"))]
    /\ bpc' = [bpc EXCEPT ![c] = IF ok THEN "loop" ELSE "done"]
    /\ UNCHANGED <<cmds, applied, inbox, app, keys, frames>>
    /\ UNCHANGED <<upc, clockVars, relayVars>>

\* mutant: a text that does not decode is dropped without an event
ParseErrorNone == <<>>

\* the Err arm of serde_json::from_str
ParseError == <<EvError("Failed to parse message")>>

\* what the select! arm of read.next() emits for the frame it got (after a
\* close frame the Disconnected of the arm is followed by the one sent after
\* the loop)
ReadEvents(f) ==
    CASE f.kind = "text" ->
             IF Decodes(f.json)
             THEN <<handle_wire_message(from_str(f.json))>>
             ELSE ParseError
      [] f.kind = "close" -> <<EvDisconnected, EvDisconnected>>
      [] f.kind = "err" -> <<EvError("WebSocket error"), EvDisconnected>>
      [] OTHER -> <<>>

\* Some(msg_result) = read.next(): one frame (or read error) is handled; a
\* close frame and an error leave the loop
on_frame(c, f) ==
    /\ bpc[c] = "loop"
    /\ inbox' = [inbox EXCEPT ![c] = Append(@, f)]
    /\ events' = [events EXCEPT ![c] = @ \o ReadEvents(f)]
    /\ bpc' = [bpc EXCEPT ![c] = IF f.kind \in {"close", "err"} THEN "done" ELSE @]
    /\ link' = [link EXCEPT ![c] = IF f.kind = "err" THEN "down" ELSE @]
    /\ UNCHANGED <<cmds, applied, sent, app, keys>>
    /\ UNCHANGED <<upc, clockVars, relayVars>>

\* mutant: Disconnect does not leave the loop
LoopAfterStay(k) == "loop"

\* the position of network_task after the command: only Disconnect breaks
LoopAfter(k) == IF k.cmd = "Disconnect" THEN "done" ELSE "loop"

\* the frame written for a command
CommandFrame(c, k) ==
    CASE k.cmd = "SendMessage" ->
             TextFrame(to_string(MessageEnvelope(k.content, k.channel_id, Username(c))))
      [] k.cmd = "Authenticate" ->
             TextFrame(to_string(AuthEnvelope(k.username)))
      [] k.cmd = "Disconnect" -> CloseFrame

\* what is emitted once the write for the command returned
CommandEvents(k, ok) ==
    CASE k.cmd = "SendMessage" ->
             IF ok THEN <<>> ELSE <<EvError("Failed to send message")>>
      [] k.cmd = "Authenticate" ->
             IF ok THEN <<>> ELSE <<EvError("Failed to authenticate")>>
      [] k.cmd = "Disconnect" -> <<EvDisconnected>>

\* Some(command) = command_rx.recv(): the oldest command is taken and served
service_command(c, ok) ==
    /\ bpc[c] = "loop"
    /\ cmds[c] # <<>>
    /\ Write(c, ok, CommandFrame(c, Head(cmds[c])))
    /\ events' = [events EXCEPT ![c] = @ \o CommandEvents(Head(cmds[c]), ok)]
    /\ bpc' = [bpc EXCEPT ![c] = LoopAfter(Head(cmds[c]))]
    /\ cmds' = [cmds EXCEPT ![c] = Tail(@)]
    /\ UNCHANGED <<applied, inbox, app, keys, frames>>
    /\ UNCHANGED <<upc, clockVars, relayVars>>

\* ---- client: the UI loop (main.rs) ----

\* the program runs and has not been told to quit
UiRuns(c) == bpc[c] # "off" /\ ~app[c].should_quit

\* where the loop goes once the key (or the timeout of event::poll) is dealt
\* with: to the once-a-second update if last_uptime_update.elapsed() >= 1 s,
\* else to the next iteration
AfterPoll(c) == IF seconds[c] > 0 THEN {"drain", "tick"} ELSE {"drain"}

\* mutant: no command reaches the queue
CommandSendNone(q, b, k) == q

\* command_tx.send: it fails once network_task has returned and dropped command_rx
CommandSend(q, b, k) == IF b = "done" THEN q ELSE Append(q, k)

\* the text of the n-th message the user of the client types
Typed(c, n) == <<Username(c), ToString(n)>>

\* mutant: the sent message is not shown locally
EchoNone(a, input) == [a EXCEPT !.messages_sent = @ + 1]

\* handle_key_event, Enter while editing: the optimistic update
Echo(a, input) ==
    [add_message(a, ChatMessage(a.username, input, FALSE))
        EXCEPT !.messages_sent = @ + 1]

\* handle_key_event, Enter while editing, with the taken input
key_enter(c, input) ==
    /\ UiRuns(c)
    /\ upc[c] = "poll"
    /\ keys[c] > 0
    /\ keys' = [keys EXCEPT ![c] = @ - 1]
    /\ IF input = <<>>
       THEN UNCHANGED <<cmds, app>>
       ELSE /\ cmds' = [cmds EXCEPT ![c] =
                           CommandSend(@, bpc[c],
                               CmdSendMessage(input, app[c].active_channel))]
            /\ app' = [app EXCEPT ![c] = Echo(@, input)]
    /\ UNCHANGED <<bpc, link, events, applied, sent, inbox, frames>>
    /\ \E p \in AfterPoll(c) : upc' = [upc EXCEPT ![c] = p]
    /\ UNCHANGED <<clockVars, relayVars>>

\* handle_key_event, Tab or '#': another channel becomes the active one
key_switch(c, i) ==
    /\ UiRuns(c)
    /\ upc[c] = "poll"
    /\ i \in DOMAIN app[c].channels
    /\ i # app[c].active_channel
    /\ app' = [app EXCEPT ![c] = switch_channel(@, i)]
    /\ UNCHANGED <<bpc, link, cmds, events, applied, sent, inbox, keys, frames>>
    /\ \E p \in AfterPoll(c) : upc' = [upc EXCEPT ![c] = p]
    /\ UNCHANGED <<clockVars, relayVars>>

\* 'q': the loop is left (after the once-a-second update if it is due) and main
\* signals Disconnect to the network task
key_quit(c) ==
    /\ UiRuns(c)
    /\ upc[c] = "poll"
    /\ app' = [app EXCEPT ![c].should_quit = TRUE]
    /\ cmds' = [cmds EXCEPT ![c] = CommandSend(@, bpc[c], CmdDisconnect)]
    /\ UNCHANGED <<bpc, link, events, applied, sent, inbox, keys, frames>>
    /\ \E p \in AfterPoll(c) : upc' = [upc EXCEPT ![c] = IF p = "tick" THEN p ELSE "join"]
    /\ UNCHANGED <<clockVars, relayVars>>

\* handle_key_event, 'd': a pairwise channel with the selected user of the
\* roster is opened
key_open_dm(c, u) ==
    /\ UiRuns(c)
    /\ upc[c] = "poll"
    /\ InRoster(app[c], u)
    /\ open_dm(app[c], u) # app[c]
    /\ app' = [app EXCEPT ![c] = open_dm(@, u)]
    /\ UNCHANGED <<bpc, link, cmds, events, applied, sent, inbox, keys, frames>>
    /\ \E p \in AfterPoll(c) : upc' = [upc EXCEPT ![c] = p]
    /\ UNCHANGED <<clockVars, relayVars>>

\* mutant: the drain loop may be left with events still queued
DrainedAlways(c) == TRUE

\* event_rx.try_recv() returns Err: no event is queued
Drained(c) == applied[c] = Len(events[c])

\* the while-let loop over try_recv ends and the loop goes on to event::poll
drain_end(c) ==
    /\ UiRuns(c)
    /\ upc[c] = "drain"
    /\ Drained(c)
    /\ upc' = [upc EXCEPT ![c] = "poll"]
    /\ UNCHANGED <<bpc, link, cmds, events, applied, sent, inbox, app, keys, frames>>
    /\ UNCHANGED <<clockVars, relayVars>>

\* event::poll returned without a key the loop acts on: the next iteration
poll_timeout(c) ==
    /\ UiRuns(c)
    /\ upc[c] = "poll"
    /\ \E p \in AfterPoll(c) : upc' = [upc EXCEPT ![c] = p]
    /\ UNCHANGED <<bpc, link, cmds, events, applied, sent, inbox, app, keys, frames>>
    /\ UNCHANGED <<clockVars, relayVars>>

\* a second has elapsed: increment_uptime and update_network_activity, then the
\* check of should_quit
uptime_update(c) ==
    /\ upc[c] = "tick"
    /\ seconds[c] > 0
    /\ seconds' = [seconds EXCEPT ![c] = @ - 1]
    /\ app' = [app EXCEPT ![c] =
                  update_network_activity(increment_uptime(@, 1), LAST_TOTAL[c])]
    /\ LAST_TOTAL' = [LAST_TOTAL EXCEPT ![c] = LastTotalAfter(app[c], @)]
    /\ upc' = [upc EXCEPT ![c] = IF app[c].should_quit THEN "join" ELSE "drain"]
    /\ UNCHANGED <<bpc, link, cmds, events, applied, sent, inbox, keys, frames>>
    /\ UNCHANGED relayVars

\* main: network_handle.await returns once network_task has returned
main_join(c) ==
    /\ upc[c] = "join"
    /\ bpc[c] = "done"
    /\ upc' = [upc EXCEPT ![c] = "exited"]
    /\ UNCHANGED <<bpc, link, cmds, events, applied, sent, inbox, app, keys, frames>>
    /\ UNCHANGED <<clockVars, relayVars>>

\* event_rx.try_recv() gave an event: handle_network_event
apply_event(c) ==
    /\ UiRuns(c)
    /\ upc[c] = "drain"
    /\ applied[c] < Len(events[c])
    /\ app' = [app EXCEPT ![c] = handle_network_event(@, events[c][applied[c] + 1])]
    /\ applied' = [applied EXCEPT ![c] = @ + 1]
    /\ UNCHANGED <<bpc, link, cmds, events, sent, inbox, keys, frames>>
    /\ UNCHANGED <<upc, clockVars, relayVars>>

\* ---- one client against an arbitrary peer ----

\* a holder of command_tx other than the key handler sends Authenticate
cmd_authenticate(c, u) ==
    /\ UiRuns(c)
    /\ keys[c] > 0
    /\ keys' = [keys EXCEPT ![c] = @ - 1]
    /\ cmds' = [cmds EXCEPT ![c] = CommandSend(@, bpc[c], CmdAuthenticate(u))]
    /\ UNCHANGED <<bpc, link, events, applied, sent, inbox, app, frames>>
    /\ UNCHANGED <<upc, clockVars, relayVars>>

\* texts a peer may send: envelopes of each kind, with and without the channel
\* key, and texts that are not a WireMessage
PeerTexts ==
    { Json(AllKeys, "MSG", <<"hi">>, <<"global">>, "bob", 1),
      Json(AllKeys \ {"channel"}, "MSG", <<"we", "joined">>, <<>>, "bob", 2),
      Json(AllKeys, "MSG", <<"psst">>, <<"dm", "alice", "bob">>, "bob", 1),
      Json(AllKeys, "SYS", <<"bob", "joined", "the", "chat">>, <<"global">>, "bob", 1),
      Json(AllKeys, "SYS", <<"bob", "left", "the", "chat">>, <<"global">>, "bob", 1),
      Json(AllKeys, "SYS", <<"carol", "left", "bob", "rejoined">>, <<"global">>, "bob", 1),
      Json(AllKeys, "SYS", <<"server", "restarting">>, <<"global">>, "server", 1),
      Json(AllKeys, "AUTH", <<"bob">>, <<"global">>, "bob", 1),
      Json(AllKeys \ {"meta"}, "MSG", <<"hi">>, <<"global">>, "", 0),
      Json(AllKeys, "PING", <<>>, <<"global">>, "bob", 1) }

\* results of read.next(): a text, a close frame, a ping, a read error
PeerFrames ==
    {TextFrame(j) : j \in PeerTexts}
        \cup {CloseFrame, Frame("ping", NoJson), Frame("err", NoJson)}

\* the peer's next frame arrives; a transport that is down only gives errors
read_peer(c, f) ==
    /\ frames[c] > 0
    /\ link[c] = "down" => f.kind = "err"
    /\ frames' = [frames EXCEPT ![c] = @ - 1]
    /\ on_frame(c, f)

\* the client program of connection 1 has just spawned network_task; no relay
BridgeInit ==
    /\ clients = <<>>
    /\ next_client_id = 0
    /\ hpc = [c \in Conn |-> "idle"]
    /\ client_id = [c \in Conn |-> NoId]
    /\ spc = [c \in Conn |-> "none"]
    /\ rpc = [c \in Conn |-> "none"]
    /\ aborted = {}
    /\ queue = [c \in Conn |-> <<>>]
    /\ delivered = [c \in Conn |-> <<>>]
    /\ todo = [c \in Conn |-> {}]
    /\ failed_clients = [c \in Conn |-> {}]
    /\ ntexts = [c \in Conn |-> 0]
    /\ slots = 0
    /\ budget = 0
    /\ unregRuns = [c \in Conn |-> 0]
    /\ bcClosed = [c \in Conn |-> {}]
    /\ lock = NoLocks
    /\ bpc = [c \in Conn |-> IF c = 1 THEN "connect" ELSE "off"]
    /\ link = [c \in Conn |-> "down"]
    /\ cmds = [c \in Conn |-> <<>>]
    /\ events = [c \in Conn |-> <<>>]
    /\ applied = [c \in Conn |-> 0]
    /\ sent = [c \in Conn |-> <<>>]
    /\ inbox = [c \in Conn |-> <<>>]
    /\ app = [c \in Conn |-> AppNew(Username(c))]
    /\ keys = [c \in Conn |-> IF c = 1 THEN MaxKeys ELSE 0]
    /\ frames = [c \in Conn |-> IF c = 1 THEN MaxFrames ELSE 0]
    /\ upc = [c \in Conn |-> IF c = 1 THEN "drain" ELSE "off"]
    /\ LAST_TOTAL = [c \in Conn |-> 0]
    /\ seconds = [c \in Conn |-> 0]

BridgeNext ==
    \E c \in Conn :
        \/ connect_ok(c)
        \/ connect_fail(c)
        \/ \E ok \in BOOLEAN : auth_write(c, ok)
        \/ \E f \in PeerFrames : read_peer(c, f)
        \/ \E ok \in BOOLEAN : service_command(c, ok)
        \/ \E input \in {<<>>, Typed(c, app[c].messages_sent + 1)} : key_enter(c, input)
        \/ \E i \in DOMAIN app[c].channels : key_switch(c, i)
        \/ key_quit(c)
        \/ apply_event(c)
        \/ drain_end(c)
        \/ poll_timeout(c)
        \/ main_join(c)
        \/ cmd_authenticate(c, "ghost")

SpecBridge == BridgeInit /\ [][BridgeNext]_vars

\* liveness of the client: connect_async and every write return, select! takes
\* a command that stays queued, and the runtime wakes main once the task it
\* awaits has returned
BridgeFairness ==
    \A c \in Conn :
        /\ WF_vars(connect_ok(c) \/ connect_fail(c))
        /\ WF_vars(\E ok \in BOOLEAN : auth_write(c, ok))
        /\ WF_vars(\E ok \in BOOLEAN : service_command(c, ok))
        /\ WF_vars(main_join(c))

FairBridge == BridgeInit /\ [][BridgeNext]_vars /\ BridgeFairness

\* ---- two clients and the relay ----

\* the text frames a client wrote, in order
TextsSent(c) == SelectSeq(sent[c], LAMBDA f : f.kind = "text")

\* the connection that was given the id
ConnOfId(id) == CHOOSE c \in Conn : client_id[c] = id

\* the text the relay carries as the n-th text of an origin: what that client
\* wrote as its n-th text frame
TextOf(p) == TextsSent(ConnOfId(p[1]))[p[2]]

\* recv_task reads the next text frame its client has written
sys_recv_text(c) ==
    /\ ntexts[c] < Len(TextsSent(c))
    /\ recv_text(c)

\* the bridge reads the next frame the relay's send_task wrote to its socket
read_relay(c) ==
    /\ Len(inbox[c]) < Len(delivered[c])
    /\ on_frame(c, TextOf(delivered[c][Len(inbox[c]) + 1]))
    /\ UNCHANGED frames

\* the clients of connections 1 and 2 are connected and registered, each
\* about to write its Auth envelope
SystemInit ==
    /\ clients = [id \in {0, 1} |-> id + 1]
    /\ next_client_id = 2
    /\ hpc = [c \in Conn |-> IF c \in {1, 2} THEN "select" ELSE "idle"]
    /\ client_id = [c \in Conn |-> IF c \in {1, 2} THEN c - 1 ELSE NoId]
    /\ spc = [c \in Conn |-> IF c \in {1, 2} THEN "run" ELSE "none"]
    /\ rpc = [c \in Conn |-> IF c \in {1, 2} THEN "read" ELSE "none"]
    /\ aborted = {}
    /\ queue = [c \in Conn |-> <<>>]
    /\ delivered = [c \in Conn |-> <<>>]
    /\ todo = [c \in Conn |-> {}]
    /\ failed_clients = [c \in Conn |-> {}]
    /\ ntexts = [c \in Conn |-> 0]
    /\ slots = 0
    /\ budget = MaxSysTexts
    /\ unregRuns = [c \in Conn |-> 0]
    /\ bcClosed = [c \in Conn |-> {}]
    /\ lock = NoLocks
    /\ bpc = [c \in Conn |-> IF c \in {1, 2} THEN "auth" ELSE "off"]
    /\ link = [c \in Conn |-> IF c \in {1, 2} THEN "up" ELSE "down"]
    /\ cmds = [c \in Conn |-> <<>>]
    /\ events = [c \in Conn |-> IF c \in {1, 2} THEN <<EvConnected>> ELSE <<>>]
    /\ applied = [c \in Conn |-> 0]
    /\ sent = [c \in Conn |-> <<>>]
    /\ inbox = [c \in Conn |-> <<>>]
    /\ app = [c \in Conn |-> AppNew(Username(c))]
    /\ keys = [c \in Conn |-> IF c \in {1, 2} THEN MaxSysKeys ELSE 0]
    /\ frames = [c \in Conn |-> 0]
    /\ upc = [c \in Conn |-> IF c \in {1, 2} THEN "drain" ELSE "off"]
    /\ LAST_TOTAL = [c \in Conn |-> 0]
    /\ seconds = [c \in Conn |-> 0]

SystemNext ==
    \E c \in Conn :
        \/ auth_write(c, TRUE)
        \/ service_command(c, TRUE)
        \/ key_enter(c, Typed(c, app[c].messages_sent + 1))
        \/ apply_event(c)
        \/ drain_end(c)
        \/ poll_timeout(c)
        \/ sys_recv_text(c)
        \/ \E id \in todo[c] : broadcast_send(c, id)
        \/ broadcast_release(c)
        \/ send_forward(c)
        \/ read_relay(c)

SpecSystem == SystemInit /\ [][SystemNext]_vars

\* ---- the clock of the UI loop ----

\* the Message envelope a peer sends in these runs
TelemetryText == Json(AllKeys, "MSG", <<"hi">>, <<"global">>, "bob", 1)

\* the client of connection 1 is connected and about to write its Auth
\* envelope; MaxSeconds seconds will elapse while its UI loop runs
TelemetryInit ==
    /\ clients = <<>>
    /\ next_client_id = 0
    /\ hpc = [c \in Conn |-> "idle"]
    /\ client_id = [c \in Conn |-> NoId]
    /\ spc = [c \in Conn |-> "none"]
    /\ rpc = [c \in Conn |-> "none"]
    /\ aborted = {}
    /\ queue = [c \in Conn |-> <<>>]
    /\ delivered = [c \in Conn |-> <<>>]
    /\ todo = [c \in Conn |-> {}]
    /\ failed_clients = [c \in Conn |-> {}]
    /\ ntexts = [c \in Conn |-> 0]
    /\ slots = 0
    /\ budget = 0
    /\ unregRuns = [c \in Conn |-> 0]
    /\ bcClosed = [c \in Conn |-> {}]
    /\ lock = NoLocks
    /\ bpc = [c \in Conn |-> IF c = 1 THEN "auth" ELSE "off"]
    /\ link = [c \in Conn |-> IF c = 1 THEN "up" ELSE "down"]
    /\ cmds = [c \in Conn |-> <<>>]
    /\ events = [c \in Conn |-> IF c = 1 THEN <<EvConnected>> ELSE <<>>]
    /\ applied = [c \in Conn |-> 0]
    /\ sent = [c \in Conn |-> <<>>]
    /\ inbox = [c \in Conn |-> <<>>]
    /\ app = [c \in Conn |-> AppNew(Username(c))]
    /\ keys = [c \in Conn |-> IF c = 1 THEN MaxKeys ELSE 0]
    /\ frames = [c \in Conn |-> IF c = 1 THEN MaxFrames ELSE 0]
    /\ upc = [c \in Conn |-> IF c = 1 THEN "drain" ELSE "off"]
    /\ LAST_TOTAL = [c \in Conn |-> 0]
    /\ seconds = [c \in Conn |-> IF c = 1 THEN MaxSeconds ELSE 0]

TelemetryNext ==
    \E c \in Conn :
        \/ auth_write(c, TRUE)
        \/ read_peer(c, TextFrame(TelemetryText))
        \/ service_command(c, TRUE)
        \/ key_enter(c, Typed(c, app[c].messages_sent + 1))
        \/ key_quit(c)
        \/ apply_event(c)
        \/ drain_end(c)
        \/ poll_timeout(c)
        \/ uptime_update(c)

SpecTelemetry == TelemetryInit /\ [][TelemetryNext]_vars

\* ---- one client and the messages of its peers ----

\* channel ids of the Message envelopes the relay forwards to alice: the
\* global channel, her pairwise channel with bob, the pairwise channel of bob
\* and carol, and a group
InboundIds ==
    {<<"global">>, <<"dm", "alice", "bob">>, <<"dm", "bob", "carol">>, <<"group", "x">>}

\* what bob's and carol's clients write for SendMessage with these ids
InboundTexts ==
    {to_string(MessageEnvelope(<<"psst">>, i, u)) : i \in InboundIds, u \in {"bob", "carol"}}

\* the client of connection 1 is connected and about to write its Auth
\* envelope
InboundInit ==
    /\ clients = <<>>
    /\ next_client_id = 0
    /\ hpc = [c \in Conn |-> "idle"]
    /\ client_id = [c \in Conn |-> NoId]
    /\ spc = [c \in Conn |-> "none"]
    /\ rpc = [c \in Conn |-> "none"]
    /\ aborted = {}
    /\ queue = [c \in Conn |-> <<>>]
    /\ delivered = [c \in Conn |-> <<>>]
    /\ todo = [c \in Conn |-> {}]
    /\ failed_clients = [c \in Conn |-> {}]
    /\ ntexts = [c \in Conn |-> 0]
    /\ slots = 0
    /\ budget = 0
    /\ unregRuns = [c \in Conn |-> 0]
    /\ bcClosed = [c \in Conn |-> {}]
    /\ lock = NoLocks
    /\ bpc = [c \in Conn |-> IF c = 1 THEN "auth" ELSE "off"]
    /\ link = [c \in Conn |-> IF c = 1 THEN "up" ELSE "down"]
    /\ cmds = [c \in Conn |-> <<>>]
    /\ events = [c \in Conn |-> IF c = 1 THEN <<EvConnected>> ELSE <<>>]
    /\ applied = [c \in Conn |-> 0]
    /\ sent = [c \in Conn |-> <<>>]
    /\ inbox = [c \in Conn |-> <<>>]
    /\ app = [c \in Conn |-> AppNew(Username(c))]
    /\ keys = [c \in Conn |-> IF c = 1 THEN MaxInboundKeys ELSE 0]
    /\ frames = [c \in Conn |-> IF c = 1 THEN MaxInboundFrames ELSE 0]
    /\ upc = [c \in Conn |-> IF c = 1 THEN "drain" ELSE "off"]
    /\ LAST_TOTAL = [c \in Conn |-> 0]
    /\ seconds = [c \in Conn |-> 0]

InboundNext ==
    \E c \in Conn :
        \/ auth_write(c, TRUE)
        \/ \E j \in InboundTexts : read_peer(c, TextFrame(j))
        \/ service_command(c, TRUE)
        \/ key_enter(c, Typed(c, app[c].messages_sent + 1))
        \/ \E i \in DOMAIN app[c].channels : key_switch(c, i)
        \/ \E u \in {"bob", "carol"} : key_open_dm(c, u)
        \/ apply_event(c)
        \/ drain_end(c)
        \/ poll_timeout(c)

SpecInbound == InboundInit /\ [][InboundNext]_vars

\* ---- the App under arbitrary calls ----

\* channel ids a caller may name: the global channel, pairwise ids in both
\* orders, of third parties and of one user alone, an id of two parts, and an
\* id of no channel
AppIds ==
    { <<"global">>, <<"dm", "alice", "bob">>, <<"dm", "bob", "alice">>,
      <<"dm", "bob", "carol">>, <<"dm", "alice", "alice">>, <<"dm", "alice">>,
      <<"group", "x">> }

AppNames == {"alice", "bob", "carol"}

\* events network_task may emit
AppEvents ==
    {EvMessage(s, <<"hi">>, 1, i) : s \in AppNames, i \in AppIds}
        \cup {EvUserJoined(u) : u \in AppNames}
        \cup {EvUserLeft(u) : u \in AppNames}
        \cup {EvConnected, EvDisconnected, EvSystemMessage(<<"server", "restarting">>)}

\* App::add_message is called
app_add_message(c, msg) ==
    /\ keys[c] > 0
    /\ keys' = [keys EXCEPT ![c] = @ - 1]
    /\ app' = [app EXCEPT ![c] = add_message(@, msg)]
    /\ UNCHANGED <<bpc, link, cmds, events, applied, sent, inbox, frames>>
    /\ UNCHANGED <<upc, clockVars, relayVars>>

\* App::add_message_to_channel is called
app_add_message_to_channel(c, i, msg) ==
    /\ frames[c] > 0
    /\ frames' = [frames EXCEPT ![c] = @ - 1]
    /\ app' = [app EXCEPT ![c] = add_message_to_channel(@, i, msg)]
    /\ UNCHANGED <<bpc, link, cmds, events, applied, sent, inbox, keys>>
    /\ UNCHANGED <<upc, clockVars, relayVars>>

\* App::switch_channel is called
app_switch_channel(c, i) ==
    /\ keys[c] > 0
    /\ keys' = [keys EXCEPT ![c] = @ - 1]
    /\ app' = [app EXCEPT ![c] = switch_channel(@, i)]
    /\ UNCHANGED <<bpc, link, cmds, events, applied, sent, inbox, frames>>
    /\ UNCHANGED <<upc, clockVars, relayVars>>

\* App::open_dm is called
app_open_dm(c, u) ==
    /\ keys[c] > 0
    /\ keys' = [keys EXCEPT ![c] = @ - 1]
    /\ app' = [app EXCEPT ![c] = open_dm(@, u)]
    /\ UNCHANGED <<bpc, link, cmds, events, applied, sent, inbox, frames>>
    /\ UNCHANGED <<upc, clockVars, relayVars>>

\* handle_network_event is called with an event
app_handle_network_event(c, e) ==
    /\ frames[c] > 0
    /\ frames' = [frames EXCEPT ![c] = @ - 1]
    /\ app' = [app EXCEPT ![c] = handle_network_event(@, e)]
    /\ UNCHANGED <<bpc, link, cmds, events, applied, sent, inbox, keys>>
    /\ UNCHANGED <<upc, clockVars, relayVars>>

\* one App, of alice or of bob, as App::new left it; no relay, no network_task
AppInit ==
    /\ clients = <<>>
    /\ next_client_id = 0
    /\ hpc = [c \in Conn |-> "idle"]
    /\ client_id = [c \in Conn |-> NoId]
    /\ spc = [c \in Conn |-> "none"]
    /\ rpc = [c \in Conn |-> "none"]
    /\ aborted = {}
    /\ queue = [c \in Conn |-> <<>>]
    /\ delivered = [c \in Conn |-> <<>>]
    /\ todo = [c \in Conn |-> {}]
    /\ failed_clients = [c \in Conn |-> {}]
    /\ ntexts = [c \in Conn |-> 0]
    /\ slots = 0
    /\ budget = 0
    /\ unregRuns = [c \in Conn |-> 0]
    /\ bcClosed = [c \in Conn |-> {}]
    /\ lock = NoLocks
    /\ bpc = [c \in Conn |-> "off"]
    /\ link = [c \in Conn |-> "down"]
    /\ cmds = [c \in Conn |-> <<>>]
    /\ events = [c \in Conn |-> <<>>]
    /\ applied = [c \in Conn |-> 0]
    /\ sent = [c \in Conn |-> <<>>]
    /\ inbox = [c \in Conn |-> <<>>]
    /\ app = [c \in Conn |-> AppNew(Username(c))]
    /\ upc = [c \in Conn |-> "off"]
    /\ LAST_TOTAL = [c \in Conn |-> 0]
    /\ seconds = [c \in Conn |-> 0]
    /\ \E local \in {1, 2} :
        /\ keys = [c \in Conn |-> IF c = local THEN MaxAppKeys ELSE 0]
        /\ frames = [c \in Conn |-> IF c = local THEN MaxAppFrames ELSE 0]

AppNext ==
    \E c \in Conn :
        \/ app_add_message(c, ChatMessage(Username(c), <<"hello">>, FALSE))
        \/ \E i \in AppIds :
               app_add_message_to_channel(c, i, ChatMessage("bob", <<"psst">>, FALSE))
        \/ \E i \in AppIds : app_switch_channel(c, i)
        \/ \E u \in AppNames : app_open_dm(c, u)
        \/ \E e \in AppEvents : app_handle_network_event(c, e)

SpecApp == AppInit /\ [][AppNext]_vars

\* ---- a channel at its capacity ----

\* what the global channel holds after n messages: the welcome of App::new,
\* then messages of bob
Filled(u, n) ==
    [k \in 1..n |->
        IF k = 1
        THEN SystemChat(<<"Welcome", "to", "GhostWire,", u>>)
        ELSE ChatMessage("bob", <<ToString(k)>>, FALSE)]

\* the App of alice after so many messages that the global channel has room
\* for at most MaxRoom more
CapacityInit ==
    /\ clients = <<>>
    /\ next_client_id = 0
    /\ hpc = [c \in Conn |-> "idle"]
    /\ client_id = [c \in Conn |-> NoId]
    /\ spc = [c \in Conn |-> "none"]
    /\ rpc = [c \in Conn |-> "none"]
    /\ aborted = {}
    /\ queue = [c \in Conn |-> <<>>]
    /\ delivered = [c \in Conn |-> <<>>]
    /\ todo = [c \in Conn |-> {}]
    /\ failed_clients = [c \in Conn |-> {}]
    /\ ntexts = [c \in Conn |-> 0]
    /\ slots = 0
    /\ budget = 0
    /\ unregRuns = [c \in Conn |-> 0]
    /\ bcClosed = [c \in Conn |-> {}]
    /\ lock = NoLocks
    /\ bpc = [c \in Conn |-> "off"]
    /\ link = [c \in Conn |-> "down"]
    /\ cmds = [c \in Conn |-> <<>>]
    /\ events = [c \in Conn |-> <<>>]
    /\ applied = [c \in Conn |-> 0]
    /\ sent = [c \in Conn |-> <<>>]
    /\ inbox = [c \in Conn |-> <<>>]
    /\ \E room \in 0..MaxRoom :
           app = [c \in Conn |->
                     IF c = 1
                     THEN [AppNew(Username(c)) EXCEPT
                              !.channels[<<"global">>].messages =
                                  Filled(Username(c), MAX_MESSAGES - room)]
                     ELSE AppNew(Username(c))]
    /\ keys = [c \in Conn |-> IF c = 1 THEN MaxAppKeys ELSE 0]
    /\ frames = [c \in Conn |-> IF c = 1 THEN MaxAppFrames ELSE 0]
    /\ upc = [c \in Conn |-> "off"]
    /\ LAST_TOTAL = [c \in Conn |-> 0]
    /\ seconds = [c \in Conn |-> 0]

\* the messages added in these runs
CapacityTexts ==
    {ChatMessage("alice", <<"hello">>, FALSE), ChatMessage("bob", <<"psst">>, FALSE)}

CapacityNext ==
    \E c \in Conn :
        \/ \E msg \in CapacityTexts : app_add_message(c, msg)
        \/ \E i \in {<<"global">>, <<"dm", "alice", "bob">>} : \E msg \in CapacityTexts :
               app_add_message_to_channel(c, i, msg)
        \/ \E s \in {"bob", "carol"} :
               app_handle_network_event(c, EvMessage(s, <<"hi">>, 1, <<"global">>))
        \/ app_switch_channel(c, <<"dm", "alice", "bob">>)

SpecCapacity == CapacityInit /\ [][CapacityNext]_vars

\* ---- properties of the broadcast ----

\* everything enqueued for a connection so far, in order: what its send_task
\* wrote to the socket, then what is still in the channel
Got(c) == delivered[c] \o queue[c]

\* the connection has an entry that the loop of x sent to successfully
Served(x, d) ==
    \E id \in DOMAIN clients :
        /\ clients[id] = d
        /\ id # client_id[x]
        /\ id \notin failed_clients[x]

\* the fan-out loop of x has visited every entry and still holds the read lock
LoopDone(x) == rpc[x] = "bc_loop" /\ todo[x] = {}

\* C1: a broadcast from an id never enqueues its payload into the queue of
\* that same id: no connection ever holds a payload whose origin is its own id
C1_NoSelfEcho ==
    \A c \in Conn : \A i \in 1..Len(Got(c)) : Got(c)[i][1] # client_id[c]

\* the origin was in the registry with another client, and its loop is over
C1_Witness ==
    \E c \in Conn : \E d \in Conn \ {c} :
        /\ LoopDone(c)
        /\ client_id[c] \in DOMAIN clients
        /\ Count(Payload(client_id[c], ntexts[c]), Got(d)) = 1

\* C2: when the fan-out loop of x is over, every connection that is registered
\* under another id and whose queue took the send holds exactly one copy of the
\* payload as x's recv_task read it, a recipient is left out only if its queue
\* is closed, and nobody else holds a copy
C2_ExactlyOneCopy ==
    \A x \in Conn :
        LoopDone(x) =>
            /\ \A d \in Conn :
                   Count(Payload(client_id[x], ntexts[x]), Got(d)) =
                       IF Served(x, d) THEN 1 ELSE 0
            /\ \A id \in failed_clients[x] :
                   id \in DOMAIN clients /\ id # client_id[x] /\ ~RxOpen(clients[id])

\* three clients registered, the loop of one is over, the two others hold one copy each
C2_Witness ==
    \E x \in Conn :
        /\ LoopDone(x)
        /\ Cardinality(DOMAIN clients) = 3
        /\ client_id[x] \in DOMAIN clients
        /\ failed_clients[x] = {}
        /\ \A d \in Conn \ {x} : Count(Payload(client_id[x], ntexts[x]), Got(d)) = 1
        /\ Count(Payload(client_id[x], ntexts[x]), Got(x)) = 0

\* the broadcast of c returns in this step
BroadcastReturns(c) == rpc[c] \in {"bc_loop", "prune"} /\ rpc'[c] = "read"

\* C3: an id whose queue was closed before a broadcast from another id started
\* is not in the registry in the state the broadcast returns in
C3_ClosedIsPruned ==
    [][\A c \in Conn : BroadcastReturns(c) => bcClosed[c] \cap DOMAIN clients' = {}]_vars

\* a broadcast has returned, and a connection whose send_task had ended, and
\* whose handler has not unregistered it, is gone from the registry
C3_Witness ==
    \E c \in Conn : \E d \in Conn \ {c} :
        /\ rpc[c] = "read"
        /\ ntexts[c] > 0
        /\ hpc[d] = "select"
        /\ ~RxOpen(d)
        /\ client_id[d] \notin DOMAIN clients

\* ---- properties of the registry ----

\* ids whose register_client has returned / whose unregister_client has returned
Registered == {client_id[c] : c \in Completed}

Unregistered == {client_id[c] : c \in {d \in Conn : hpc[d] = "closed"}}

\* no register_client or unregister_client call is in progress
Quiescent == \A c \in Conn : hpc[c] \in {"idle", "select", "closed"}

\* C4: over sequences of register/unregister, whenever no such operation is in
\* progress client_count equals the number of ids registered and not yet
\* unregistered
C4_CountMatches ==
    Quiescent => client_count = Cardinality(Registered \ Unregistered)

\* quiescent, with one id unregistered and two still registered
C4_Witness ==
    /\ Quiescent
    /\ Cardinality(Unregistered) = 1
    /\ Cardinality(Registered \ Unregistered) = 2

\* no two connections were given the same id (a closed connection keeps its id)
DistinctIds ==
    \A c \in Conn : \A d \in Conn \ {c} :
        client_id[c] # NoId => client_id[c] # client_id[d]

\* the id next_id hands out in this step is above every id of a registration
\* that has returned, and differs from every id handed out so far
FreshId(c) ==
    (client_id[c] = NoId /\ client_id'[c] # NoId) =>
        /\ \A d \in Completed : client_id'[c] > client_id[d]
        /\ \A d \in Conn : client_id'[c] # client_id[d]

\* C5: every id register_client returns differs from every id returned before,
\* is greater than the id of every registration that had completed, and is
\* never one that was unregistered
C5_FreshIds == []DistinctIds /\ [][\A c \in Conn : FreshId(c)]_vars

\* two registrations overlapped (the later accept got the smaller id), a third
\* one followed an unregistration
C5_Witness ==
    \E c \in Conn : \E d \in Conn : \E e \in Conn :
        /\ c < d
        /\ client_id[d] # NoId
        /\ client_id[c] > client_id[d]
        /\ hpc[e] = "closed"
        /\ client_id[e] # NoId
        /\ \E f \in Completed : client_id[f] > client_id[e]

\* ---- ordering ----

\* the payloads of origin s among those enqueued for r, in queue order
FromSender(r, s) == SelectSeq(Got(r), LAMBDA p : p[1] = client_id[s])

\* C6: a recipient that is registered with an open queue holds the payloads of
\* each other sender in the order the relay read them (text 1, text 2, ...),
\* none missing except the one whose fan-out is still under way, and its
\* send_task forwards them from the front of that queue
C6_SenderOrder ==
    \A r \in Conn : \A s \in Conn \ {r} :
        (RxOpen(r) /\ client_id[r] \in DOMAIN clients) =>
            /\ \A i \in 1..Len(FromSender(r, s)) :
                   FromSender(r, s)[i] = Payload(client_id[s], i)
            /\ Len(FromSender(r, s)) \in {ntexts[s] - 1, ntexts[s]}
            /\ rpc[s] = "read" => Len(FromSender(r, s)) = ntexts[s]

\* a recipient got text 1 of a sender, then a text of a third client, then
\* text 2 of the sender, and has forwarded the first of them
C6_Witness ==
    \E r \in Conn : \E s \in Conn \ {r} : \E t \in Conn \ {r, s} :
        /\ RxOpen(r)
        /\ client_id[r] \in DOMAIN clients
        /\ Got(r) = <<Payload(client_id[s], 1), Payload(client_id[t], 1),
                      Payload(client_id[s], 2)>>
        /\ Len(delivered[r]) = 1

\* ---- properties of the session ----

\* the registry holds the entry of the connection
HasEntry(c) == client_id[c] \in DOMAIN clients

SendAborted(c) == <<c, "send">> \in aborted

RecvAborted(c) == <<c, "recv">> \in aborted

\* the handler is past its select!
AfterSelect(c) == hpc[c] \in {"unregister", "closed"}

\* one task had ended and the other one was aborted
FirstEndedOtherAborted(c) ==
    \/ spc[c] = "done" /\ RecvAborted(c)
    \/ rpc[c] = "done" /\ SendAborted(c)

\* C7: the handler passes its select! only when one task has ended, and it has
\* then aborted the other; unregister_client has run once when the handler is
\* over and not at all before; and once a task has ended it does run
C7_UnregisterOnce ==
    /\ [](\A c \in Conn :
            /\ AfterSelect(c) => FirstEndedOtherAborted(c)
            /\ unregRuns[c] = IF hpc[c] = "closed" THEN 1 ELSE 0)
    /\ \A c \in Conn :
            (hpc[c] = "select" /\ (spc[c] = "done" \/ rpc[c] = "done"))
                ~> (unregRuns[c] = 1)

\* recv_task ended first, send_task was aborted and dropped, unregister ran once
C7_Witness ==
    \E c \in Conn :
        /\ hpc[c] = "closed"
        /\ unregRuns[c] = 1
        /\ rpc[c] = "done"
        /\ spc[c] = "cancelled"

\* the session is registered and its send_task has not ended (between the
\* insert and the spawn the task is about to start)
SenderRunning(c) ==
    /\ hpc[c] \in {"spawn", "select", "unregister", "closed"}
    /\ spc[c] \in {"none", "run"}

\* C8 as claimed: an id has an entry if and only if the sender task of its
\* session is still running
C8_EntryIffSenderRuns ==
    \A c \in Conn : HasEntry(c) <=> SenderRunning(c)

\* C8 as amended: a sender task that is still running and was not aborted has
\* its entry; an entry whose sender task is no longer running exists only
\* until unregister_client or a clean-up pass removes it
C8_RunningHasEntry ==
    \A c \in Conn :
        /\ (SenderRunning(c) /\ ~SendAborted(c)) => HasEntry(c)
        /\ (HasEntry(c) /\ ~SenderRunning(c)) =>
               /\ spc[c] \in {"done", "cancelled"}
               /\ hpc[c] \in {"select", "unregister"}

\* one session has its entry and a running sender task, another one still has
\* its entry although its sender task has ended
C8_Witness ==
    \E c \in Conn : \E d \in Conn \ {c} :
        /\ spc[c] = "run" /\ ~SendAborted(c) /\ HasEntry(c)
        /\ spc[d] = "done" /\ HasEntry(d)

\* C9 as claimed: once unregister_client has run for a connection, no text of
\* it starts a broadcast, nothing is forwarded to its socket, and its id is
\* not in the registry
C9_RetiredTogether ==
    /\ [](\A c \in Conn : hpc[c] = "closed" => ~HasEntry(c))
    /\ [][\A c \in Conn : hpc[c] = "closed" =>
              (ntexts'[c] = ntexts[c] /\ delivered'[c] = delivered[c])]_vars

\* C9 as amended: once unregister_client has run, the id is not in the registry
\* and each task of the session has ended or has been aborted
C9_RetiredOrAborted ==
    \A c \in Conn :
        hpc[c] = "closed" =>
            /\ ~HasEntry(c)
            /\ spc[c] \in {"done", "cancelled"} \/ SendAborted(c)
            /\ rpc[c] \in {"done", "cancelled"} \/ RecvAborted(c)

\* unregister_client has run and the aborted recv_task is inside a broadcast
C9_Witness ==
    \E c \in Conn :
        /\ hpc[c] = "closed"
        /\ RecvAborted(c)
        /\ rpc[c] = "bc_loop"
        /\ ~HasEntry(c)

\* C10: once the recv_task of a connection has ended (close frame, read
\* error) or its send_task has ended (a send to it failed), its id leaves the
\* registry and stays out
C10_EntryRemoved ==
    \A c \in Conn :
        (rpc[c] = "done" \/ spc[c] = "done") ~> [](~HasEntry(c))

\* a send to the connection failed, and its entry is gone after unregister
C10_Witness ==
    \E c \in Conn :
        /\ spc[c] = "done"
        /\ hpc[c] = "closed"
        /\ ~HasEntry(c)

\* ---- a failed delivery stays local ----

\* the clean-up pass of c runs in this step
PruneStep(c) == rpc[c] = "prune" /\ rpc'[c] = "read"

\* recv_task is inside RelayState::broadcast
InBroadcast(c) == rpc[c] \in {"bc_loop", "prune"}

\* C11: when an enqueue failed during the broadcast of x, every other
\* registered client that is not the origin and whose queue took the send
\* still holds exactly one copy when the loop is over; the clean-up pass
\* removes the failed ids and no other entry, and no step of the broadcast
\* touches the registry otherwise; the broadcast hands no error to recv_task,
\* which goes on reading (it leaves the broadcast only by returning or by
\* being dropped after an abort)
C11_FailureIsLocal ==
    /\ [](\A x \in Conn :
            (LoopDone(x) /\ failed_clients[x] # {}) =>
                \A id \in (DOMAIN clients) \ (failed_clients[x] \cup {client_id[x]}) :
                    Count(Payload(client_id[x], ntexts[x]), Got(clients[id])) = 1)
    /\ [][\A c \in Conn :
            /\ PruneStep(c) =>
                   DOMAIN clients' = (DOMAIN clients) \ failed_clients[c]
            /\ (rpc[c] = "bc_loop" /\ rpc'[c] # "bc_loop") => clients' = clients
            /\ InBroadcast(c) => rpc'[c] \in {"bc_loop", "prune", "read", "cancelled"}]_vars

\* a broadcast has returned after a failed send: the dead client was pruned
\* while its handler still waits, a third client kept its entry and holds the
\* one copy
C11_Witness ==
    \E c \in Conn : \E d \in Conn \ {c} : \E e \in Conn \ {c, d} :
        /\ rpc[c] = "read"
        /\ ntexts[c] = 1
        /\ hpc[d] = "select"
        /\ ~RxOpen(d)
        /\ ~HasEntry(d)
        /\ HasEntry(e)
        /\ HasEntry(c)
        /\ Count(Payload(client_id[c], 1), Got(e)) = 1

\* ---- properties of the bridge ----

\* network_task returns from its connect step without a connection
ConnectFails(c) == bpc[c] = "connect" /\ bpc'[c] # "auth" /\ bpc'[c] # "connect"

\* network_task has ended because connect_async failed
FailedToConnect(c) ==
    /\ bpc[c] = "done"
    /\ events[c] # <<>>
    /\ events[c][1] = EvError("Failed to connect")

\* C13: when the initial connect fails the bridge emits one Error event and
\* returns; from then on that Error is all it ever emitted (no Connected), it
\* has written and read no frame, its transport was never up, and a bridge
\* that has ended never runs again (no second connection attempt)
C13_ConnectFailure ==
    /\ [][\A c \in Conn :
            /\ ConnectFails(c) =>
                   bpc'[c] = "done" /\ events'[c] = <<EvError("Failed to connect")>>
            /\ bpc[c] = "done" => bpc'[c] = "done"]_vars
    /\ [](\A c \in Conn :
            FailedToConnect(c) =>
                /\ events[c] = <<EvError("Failed to connect")>>
                /\ sent[c] = <<>>
                /\ inbox[c] = <<>>
                /\ link[c] = "down")

\* the connect failed, the UI has shown the error, and a message the user
\* typed in the meantime stays unserved in the command channel
C13_Witness ==
    \E c \in Conn :
        /\ FailedToConnect(c)
        /\ applied[c] = 1
        /\ Len(cmds[c]) = 1
        /\ app[c].messages_sent = 2

\* the text is an Auth envelope of the identity: payload and meta.sender
IsAuthOf(f, u) ==
    /\ f.kind = "text"
    /\ Decodes(f.json)
    /\ from_str(f.json).msg_type = "Auth"
    /\ from_str(f.json).payload = <<u>>
    /\ from_str(f.json).meta.sender = u

\* a command is taken from the command channel in this step
ServiceStep(c) == Len(cmds'[c]) < Len(cmds[c])

\* C14: once connect has succeeded the first event is Connected; the first
\* frame on the transport, if any was written, is the Auth envelope of the
\* client's identity; the bridge enters its loop only after writing it, and no
\* command is served before it is on the transport
C14_AuthFirst ==
    /\ [](\A c \in Conn :
            /\ (bpc[c] \in {"auth", "loop"} \/ sent[c] # <<>>) =>
                   events[c] # <<>> /\ events[c][1] = EvConnected
            /\ sent[c] # <<>> => IsAuthOf(sent[c][1], Username(c))
            /\ bpc[c] = "auth" => sent[c] = <<>>
            /\ bpc[c] = "loop" => sent[c] # <<>>)
    /\ [][\A c \in Conn :
            ServiceStep(c) =>
                sent[c] # <<>> /\ IsAuthOf(sent[c][1], Username(c))]_vars

\* two messages were typed before the connection was up; the Auth envelope
\* went out first and the first of the two messages after it
C14_Witness ==
    \E c \in Conn :
        /\ bpc[c] = "loop"
        /\ Len(sent[c]) = 2
        /\ IsAuthOf(sent[c][1], Username(c))
        /\ sent[c][2].kind = "text"
        /\ from_str(sent[c][2].json).msg_type = "Message"
        /\ Len(cmds[c]) = 1
        /\ events[c] = <<EvConnected>>
        /\ app[c].is_connected

\* the bridge reads a frame in this step
ReadStep(c) == Len(inbox'[c]) = Len(inbox[c]) + 1

\* the frame read in this step
FrameRead(c) == inbox'[c][Len(inbox'[c])]

\* a text frame that is not a WireMessage
Undecodable(f) == f.kind = "text" /\ ~Decodes(f.json)

\* C15: reading a text that does not decode adds exactly one Error event and
\* changes nothing else: no frame is written, no command is taken, the
\* transport stays as it is and the bridge stays in its loop
C15_ParseErrorOnly ==
    [][\A c \in Conn :
        (ReadStep(c) /\ Undecodable(FrameRead(c))) =>
            /\ events'[c] = Append(events[c], EvError("Failed to parse message"))
            /\ bpc'[c] = "loop"
            /\ sent'[c] = sent[c]
            /\ cmds'[c] = cmds[c]
            /\ link'[c] = link[c]]_vars

\* after the undecodable text the bridge handled a message frame and served a
\* command (whose write failed): the three events follow each other
C15_Witness ==
    \E c \in Conn :
        /\ Len(inbox[c]) = 2
        /\ Undecodable(inbox[c][1])
        /\ Len(events[c]) = 4
        /\ events[c][2] = EvError("Failed to parse message")
        /\ events[c][3].ev = "Message"
        /\ events[c][4] = EvError("Failed to send message")
        /\ bpc[c] = "loop"

\* the join and the leave pattern of a System payload
JoinPattern(p) == \E i \in 1..Len(p) : p[i] \in {"joined", "rejoined"}

LeavePattern(p) == \E i \in 1..Len(p) : p[i] = "left"

\* the channel a JSON text names, the global one when it has no channel key
ChannelOf(j) == IF "channel" \in j.keys THEN j.channel ELSE <<"global">>

\* the one event a text that decodes stands for, by its kind
EventFor(j) ==
    CASE j.type = "MSG" -> EvMessage(j.sender, j.payload, j.timestamp, ChannelOf(j))
      [] j.type = "AUTH" -> EvUserJoined(j.sender)
      [] j.type = "SYS" /\ JoinPattern(j.payload) -> EvUserJoined(j.sender)
      [] j.type = "SYS" /\ ~JoinPattern(j.payload) /\ LeavePattern(j.payload) ->
             EvUserLeft(j.sender)
      [] j.type = "SYS" /\ ~JoinPattern(j.payload) /\ ~LeavePattern(j.payload) ->
             EvSystemMessage(j.payload)

BobJoined == Json(AllKeys, "SYS", <<"bob", "joined", "the", "chat">>, <<"global">>, "bob", 1)

\* C16: reading a text that decodes adds exactly one event, the one its kind
\* stands for (a System payload that matches the join pattern is a join even
\* if it also matches the leave pattern); SYS "bob joined the chat" from bob
\* gives UserJoined(bob)
C16_OneEventPerKind ==
    [][\A c \in Conn :
        (ReadStep(c) /\ FrameRead(c).kind = "text" /\ Decodes(FrameRead(c).json)) =>
            /\ events'[c] = Append(events[c], EventFor(FrameRead(c).json))
            /\ FrameRead(c).json = BobJoined =>
                   events'[c] = Append(events[c], EvUserJoined("bob"))]_vars

\* the bridge read "bob joined the chat" and then a message without a channel
\* key; the UI put bob on the roster and the message into the global channel
C16_Witness ==
    \E c \in Conn :
        /\ Len(inbox[c]) = 2
        /\ inbox[c][1] = TextFrame(BobJoined)
        /\ events[c] = <<EvConnected, EvUserJoined("bob"),
                         EvMessage("bob", <<"we", "joined">>, 2, <<"global">>)>>
        /\ applied[c] = 3
        /\ app[c].users = <<"bob">>
        /\ app[c].messages_received = 1

\* C17: serving SendMessage { content, channel_id } writes exactly one frame,
\* a Message envelope with that payload and channel and with the identity the
\* bridge was started with as meta.sender (an earlier Authenticate does not
\* change it); if the transport does not take the write nothing is written
C17_SendMessageEnvelope ==
    [][\A c \in Conn :
        (ServiceStep(c) /\ Head(cmds[c]).cmd = "SendMessage") =>
            \/ /\ Len(sent'[c]) = Len(sent[c]) + 1
               /\ SubSeq(sent'[c], 1, Len(sent[c])) = sent[c]
               /\ sent'[c][Len(sent'[c])].kind = "text"
               /\ Decodes(sent'[c][Len(sent'[c])].json)
               /\ from_str(sent'[c][Len(sent'[c])].json) =
                      WireMessage("Message", Head(cmds[c]).content,
                                  Head(cmds[c]).channel_id, Username(c), UtcNow)
            \/ /\ sent'[c] = sent[c]
               /\ link'[c] = "down"]_vars

\* after Authenticate for another name was served, a message typed in a direct
\* channel went out with that channel and the original identity
C17_Witness ==
    \E c \in Conn :
        /\ Len(sent[c]) = 3
        /\ IsAuthOf(sent[c][2], "ghost")
        /\ sent[c][3].kind = "text"
        /\ from_str(sent[c][3].json) =
               WireMessage("Message", Typed(c, 1), <<"dm", "alice", "bob">>,
                           Username(c), UtcNow)

\* every Message envelope on the transport is shown in a channel of its sender
EchoShown(c) ==
    \A i \in 1..Len(sent[c]) :
        (sent[c][i].kind = "text" /\ sent[c][i].json.type = "MSG") =>
            \E ch \in DOMAIN app[c].channels :
                \E n \in 1..Len(app[c].channels[ch].messages) :
                    app[c].channels[ch].messages[n] =
                        ChatMessage(Username(c), sent[c][i].json.payload, FALSE)

\* the key handler sends a message in this step
SendStep(c) == app'[c].messages_sent = app[c].messages_sent + 1

\* a SendMessage command enters the command channel in this step
EnqueueStep(c) ==
    /\ Len(cmds'[c]) = Len(cmds[c]) + 1
    /\ cmds'[c][Len(cmds'[c])].cmd = "SendMessage"

\* the messages of the active channel
ActiveMessages(a) == a.channels[a.active_channel].messages

Closed(c) == \E i \in 1..Len(sent[c]) : sent[c][i].kind = "close"

\* C19: Disconnect is served like every command, as the oldest one queued, so
\* everything enqueued before it was served before; serving it writes the
\* close frame (if the transport takes it) and ends the loop; the close frame
\* is the last frame, and a bridge that has ended writes no frame and takes no
\* command
C19_DisconnectLast ==
    /\ [][\A c \in Conn :
            /\ ServiceStep(c) => bpc[c] = "loop" /\ cmds'[c] = Tail(cmds[c])
            /\ (ServiceStep(c) /\ Head(cmds[c]).cmd = "Disconnect") =>
                   /\ bpc'[c] = "done"
                   /\ link[c] = "up" /\ link'[c] = "up" =>
                          sent'[c] = Append(sent[c], CloseFrame)
                   /\ events'[c] = Append(events[c], EvDisconnected)
            /\ bpc[c] = "done" => sent'[c] = sent[c] /\ cmds'[c] = cmds[c]]_vars
    /\ [](\A c \in Conn :
            Closed(c) => bpc[c] = "done" /\ sent[c][Len(sent[c])] = CloseFrame
                         /\ \A i \in 1..(Len(sent[c]) - 1) : sent[c][i].kind = "text")

\* the user typed two messages and quit: both went out before the close frame
C19_Witness ==
    \E c \in Conn :
        /\ Len(sent[c]) = 4
        /\ sent[c][2].json.payload = Typed(c, 1)
        /\ sent[c][3].json.payload = Typed(c, 2)
        /\ sent[c][4] = CloseFrame
        /\ bpc[c] = "done"
        /\ cmds[c] = <<>>
        /\ events[c][Len(events[c])] = EvDisconnected

\* the transport fails under a read or a write of the loop in this step
TransportFails(c) == bpc[c] = "loop" /\ link[c] = "up" /\ link'[c] = "down"

\* C20 as claimed: a failed read or write ends the run loop, and the bridge
\* then attempts no further write and takes no further command
C20_FailureEndsBridge ==
    [][\A c \in Conn : TransportFails(c) => bpc'[c] = "done"]_vars

\* ---- properties of the composed system ----

\* the messages of all channels of a StateModel that carry the text
Shown(a, con) ==
    {<<ch, n>> \in UNION {{ch} \X (1..Len(a.channels[ch].messages)) :
                              ch \in DOMAIN a.channels} :
        a.channels[ch].messages[n].content = con}

\* the bridge emitted a Message event for the k-th message of its own user
EchoedBack(c, k) ==
    \E i \in 1..Len(events[c]) :
        events[c][i].ev = "Message" /\ events[c][i].content = Typed(c, k)

\* C12: with the clients talking through the relay, no frame a client reads
\* originates from its own connection and its bridge emits no Message event
\* for a message its own user sent; so each message the user has sent is in
\* the client's own StateModel exactly once, as the optimistic echo
C12_NoEchoBack ==
    \A c \in Conn :
        /\ \A i \in 1..Len(inbox[c]) : delivered[c][i][1] # client_id[c]
        /\ \A k \in 1..app[c].messages_sent :
               /\ ~EchoedBack(c, k)
               /\ Cardinality(Shown(app[c], Typed(c, k))) = 1

\* both users sent a message, each client has shown the other's message, and
\* every event has been applied
C12_Witness ==
    \E c \in Conn : \E d \in Conn \ {c} :
        /\ app[c].messages_sent = 1
        /\ app[d].messages_sent = 1
        /\ Cardinality(Shown(app[c], Typed(d, 1))) = 1
        /\ Cardinality(Shown(app[d], Typed(c, 1))) = 1
        /\ applied[c] = Len(events[c])
        /\ applied[d] = Len(events[d])
        /\ Len(inbox[c]) = 2
        /\ Len(inbox[d]) = 2

\* ---- properties of the App ----

\* the unread counter and the messages of a channel id (none for an id that is
\* no channel)
Unread(a, i) == IF i \in DOMAIN a.channels THEN a.channels[i].unread_count ELSE 0

MessagesOf(a, i) == IF i \in DOMAIN a.channels THEN a.channels[i].messages ELSE <<>>

\* the step added a message to channel i of the App of c
AddedTo(c, i) == Len(MessagesOf(app'[c], i)) > Len(MessagesOf(app[c], i))

\* the step made channel i the active one of the App of c
Activated(c, i) ==
    /\ i \in DOMAIN app'[c].channels
    /\ app'[c].active_channel = i
    /\ \/ app_switch_channel(c, i)
       \/ \E u \in AppNames : app_open_dm(c, u)

\* C21: whatever is called on the App, the unread counter of a channel grows
\* only in a step that adds a message to that channel while another channel is
\* the active one, and then by exactly 1; it shrinks only to 0 and only in a
\* step that makes the channel the active one, and every such step leaves it 0
C21_UnreadCounts ==
    [][\A c \in Conn : \A i \in AppIds \cup DOMAIN app'[c].channels :
          /\ Unread(app'[c], i) > Unread(app[c], i) =>
                 /\ Unread(app'[c], i) = Unread(app[c], i) + 1
                 /\ AddedTo(c, i)
                 /\ i # app[c].active_channel
          /\ AddedTo(c, i) /\ i # app'[c].active_channel =>
                 Unread(app'[c], i) = Unread(app[c], i) + 1
          /\ Unread(app'[c], i) < Unread(app[c], i) =>
                 Unread(app'[c], i) = 0 /\ Activated(c, i)
          /\ Activated(c, i) => Unread(app'[c], i) = 0]_vars

\* a pairwise channel got a message while the global channel was active and
\* was then made the active one, and the global channel got one after that
C21_Witness ==
    \E c \in Conn :
        LET a == app[c]
            i == <<"dm", "alice", "bob">>
        IN /\ i \in DOMAIN a.channels
           /\ a.active_channel = i
           /\ a.channels[i].messages # <<>>
           /\ a.channels[i].unread_count = 0
           /\ Unread(a, <<"global">>) = 1

\* C22: switch_channel with the id of a channel makes it the active one, sets
\* its unread counter to 0 and leaves its messages and every other channel as
\* they were; with an id that is no channel it changes nothing
C22_SwitchFrame ==
    [][\A c \in Conn : \A i \in AppIds :
          app_switch_channel(c, i) =>
              IF i \in DOMAIN app[c].channels
              THEN /\ app'[c].active_channel = i
                   /\ DOMAIN app'[c].channels = DOMAIN app[c].channels
                   /\ app'[c].channels[i].unread_count = 0
                   /\ app'[c].channels[i].messages = app[c].channels[i].messages
                   /\ \A k \in DOMAIN app[c].channels \ {i} :
                          app'[c].channels[k] = app[c].channels[k]
              ELSE app'[c] = app[c]]_vars

\* a pairwise channel with two unread messages was made the active one while
\* the global channel kept its own
C22_Witness ==
    \E c \in Conn : \E i \in DOMAIN app[c].channels :
        /\ IsDm(i)
        /\ app[c].active_channel = i
        /\ Len(app[c].channels[i].messages) = 2
        /\ app[c].channels[i].unread_count = 0
        /\ Len(MessagesOf(app[c], <<"global">>)) = 1

\* C24: Channel::dm gives the same id whichever of the two names is the
\* current user: for all names a and b, and for every pairwise channel an App
\* holds under its own id, the id made with the two roles exchanged is that id
C24_DmSymmetric ==
    /\ \A a \in Names : \A b \in Names : ChannelDm(a, b).id = ChannelDm(b, a).id
    /\ \A c \in Conn : \A k \in DOMAIN app[c].channels :
           IsDm(k) /\ app[c].channels[k].id = k =>
               ChannelDm(app[c].channels[k].other_user, app[c].username).id = k

\* bob opened the channel with alice: it carries the id alice gets for bob
C24_Witness ==
    /\ <<"dm", "alice", "bob">> \in DOMAIN app[2].channels
    /\ app[2].channels[<<"dm", "alice", "bob">>].other_user = "alice"
    /\ app[2].active_channel = ChannelDm("alice", "bob").id

\* the roster of an App as a set
Roster(a) == {a.users[k] : k \in 1..Len(a.users)}

\* C25: the roster never holds the local username nor one name twice; a join
\* notice or a message from another user leaves that user in the roster, a
\* leave notice leaves the user out of it, and nothing else changes the roster
C25_Roster ==
    /\ [](\A c \in Conn :
              /\ app[c].username \notin Roster(app[c])
              /\ Cardinality(Roster(app[c])) = Len(app[c].users))
    /\ [][\A c \in Conn :
              /\ \A e \in AppEvents :
                     app_handle_network_event(c, e) =>
                         /\ e.ev \in {"UserJoined", "Message"}
                                /\ e.username # app[c].username =>
                                Roster(app'[c]) = Roster(app[c]) \cup {e.username}
                         /\ e.ev = "UserLeft" =>
                                Roster(app'[c]) = Roster(app[c]) \ {e.username}
                         /\ e.ev \notin {"UserJoined", "Message", "UserLeft"} =>
                                app'[c].users = app[c].users
              /\ app'[c].users # app[c].users =>
                     \E e \in AppEvents : app_handle_network_event(c, e)]_vars

\* bob joined and left again: the roster is empty and both notices are shown
C25_Witness ==
    \E c \in Conn :
        /\ app[c].users = <<>>
        /\ \E k \in 1..Len(MessagesOf(app[c], <<"global">>)) :
               app[c].channels[<<"global">>].messages[k] =
                   SystemChat(<<"bob", "left", "the", "chat">>)

\* the step hands a message for channel id i to the App of c
MessageTo(c, i) ==
    \/ app_add_message_to_channel(c, i, ChatMessage("bob", <<"psst">>, FALSE))
    \/ \E s \in AppNames : app_handle_network_event(c, EvMessage(s, <<"hi">>, 1, i))

\* C30: a message for a pairwise id of three parts that is no channel yet
\* creates a channel under that id, with the one of the two names that is not
\* the local username as its other user, holding that message alone with an
\* unread count of 1; a message for a pairwise id that is a channel is
\* appended to what that channel holds and no channel is created
C30_DmAutoCreate ==
    [][\A c \in Conn : \A i \in AppIds :
          MessageTo(c, i) /\ IsDm(i) /\ Len(i) = 3 =>
              IF i \notin DOMAIN app[c].channels
              THEN /\ DOMAIN app'[c].channels = DOMAIN app[c].channels \cup {i}
                   /\ app'[c].channels[i].other_user \in {i[2], i[3]}
                   /\ i[2] = app[c].username /\ i[3] # app[c].username =>
                          app'[c].channels[i].other_user = i[3]
                   /\ i[3] = app[c].username /\ i[2] # app[c].username =>
                          app'[c].channels[i].other_user = i[2]
                   /\ Len(app'[c].channels[i].messages) = 1
                   /\ app'[c].channels[i].unread_count = 1
                   /\ i # app'[c].active_channel
              ELSE /\ DOMAIN app'[c].channels = DOMAIN app[c].channels
                   /\ Len(app'[c].channels[i].messages) >
                          Len(app[c].channels[i].messages)
                   /\ app'[c].channels[i].other_user = app[c].channels[i].other_user
                   /\ SubSeq(app'[c].channels[i].messages, 1,
                             Len(app[c].channels[i].messages)) =
                          app[c].channels[i].messages]_vars

\* alice holds the channel "dm:bob:alice" with bob as the other user: the
\* first message made it and the second went to it
C30_Witness ==
    /\ <<"dm", "bob", "alice">> \in DOMAIN app[1].channels
    /\ app[1].channels[<<"dm", "bob", "alice">>].other_user = "bob"
    /\ Len(app[1].channels[<<"dm", "bob", "alice">>].messages) = 2
    /\ app[1].channels[<<"dm", "bob", "alice">>].unread_count = 2

\* ---- properties of a channel at its capacity ----

\* the step adds msg to channel i of the App of c and nothing else to it
AddsOne(c, i, msg) ==
    \/ app_add_message_to_channel(c, i, msg)
    \/ app_add_message(c, msg) /\ app[c].active_channel = i

\* C23: no channel ever holds more than MAX_MESSAGES messages; a message
\* added to a channel that holds MAX_MESSAGES leaves it with MAX_MESSAGES:
\* the oldest is gone, the others keep their order and the new one is last;
\* below that the message is appended
C23_Capacity ==
    /\ [](\A c \in Conn : \A i \in DOMAIN app[c].channels :
              Len(app[c].channels[i].messages) <= MAX_MESSAGES)
    /\ [][\A c \in Conn : \A i \in DOMAIN app[c].channels : \A msg \in CapacityTexts :
              AddsOne(c, i, msg) =>
                  IF Len(app[c].channels[i].messages) = MAX_MESSAGES
                  THEN /\ Len(app'[c].channels[i].messages) = MAX_MESSAGES
                       /\ app'[c].channels[i].messages =
                              Append(Tail(app[c].channels[i].messages), msg)
                  ELSE app'[c].channels[i].messages =
                           Append(app[c].channels[i].messages, msg)]_vars

\* the global channel is full, the welcome message is gone and the newest
\* message is the last one
C23_Witness ==
    LET ms == app[1].channels[<<"global">>].messages
    IN /\ Len(ms) = MAX_MESSAGES
       /\ ms[1] = ChatMessage("bob", <<"3">>, FALSE)
       /\ ms[MAX_MESSAGES] = ChatMessage("bob", <<"psst">>, FALSE)
       /\ ms[MAX_MESSAGES - 1] = ChatMessage("alice", <<"hello">>, FALSE)

\* ---- properties of the UI loop ----

\* the step handles local input of the client of c
InputStep(c) ==
    \/ \E input \in {<<>>, Typed(c, app[c].messages_sent + 1)} : key_enter(c, input)
    \/ \E i \in DOMAIN app[c].channels : key_switch(c, i)
    \/ key_quit(c)

\* C28: the events the bridge emitted are only ever extended; the loop
\* applies one event at a time, always the oldest one it has not applied, so
\* that each is applied once and in the order of emission; it goes from
\* draining to the poll for local input only when every event emitted so far
\* has been applied, and local input is handled only after that
C28_DrainInOrder ==
    /\ [](\A c \in Conn : applied[c] <= Len(events[c]))
    /\ [][\A c \in Conn :
              /\ Len(events'[c]) >= Len(events[c])
              /\ SubSeq(events'[c], 1, Len(events[c])) = events[c]
              /\ applied'[c] \in {applied[c], applied[c] + 1}
              /\ applied'[c] = applied[c] + 1 =>
                     /\ upc[c] = "drain"
                     /\ app'[c] = handle_network_event(app[c], events[c][applied[c] + 1])
              /\ applied'[c] = applied[c] /\ app'[c] # app[c] => InputStep(c)
              /\ upc[c] = "drain" /\ upc'[c] = "poll" => applied[c] = Len(events[c])
              /\ InputStep(c) => upc[c] = "poll"]_vars

\* the loop waits for input with three events applied, the last of them a
\* message of bob that the global channel shows
C28_Witness ==
    /\ upc[1] = "poll"
    /\ applied[1] = 3
    /\ Len(events[1]) = 3
    /\ events[1][3].ev = "Message"
    /\ app[1].is_connected
    /\ app[1].messages_received = 1

QueueClosed(c) ==
    /\ hpc[c] \in {"spawn", "select", "unregister", "closed"}
    /\ ~HasEntry(c)

\* send_task has returned or was dropped
SenderEnded(c) == spc[c] \in {"done", "cancelled"}

\* C26: a failed send ends send_task at once, and a send_task that has ended
\* writes nothing more; once the connection's queue is closed its send_task
\* has ended or ends
C26_SenderEnds ==
    /\ [][\A c \in Conn :
              /\ send_fail(c) => spc'[c] = "done"
              /\ SenderEnded(c) =>
                     spc'[c] = spc[c] /\ delivered'[c] = delivered[c]]_vars
    /\ \A c \in Conn : QueueClosed(c) ~> SenderEnded(c)

\* the queue of a connection was closed by unregister_client while its
\* send_task, which never had a send fail, was running: the task was dropped
C26_Witness ==
    \E c \in Conn :
        /\ QueueClosed(c)
        /\ hpc[c] = "closed"
        /\ spc[c] = "cancelled"
        /\ delivered[c] # <<>>

\* ---- properties of the registry lock ----

\* the tasks that are sending on their socket or waiting for it: send_task
\* between its selects and writes, recv_task at ws_rx.next()
SocketWait ==
    {<<c, "send">> : c \in {d \in Conn : spc[d] = "run"}}
        \cup {<<c, "recv">> : c \in {d \in Conn : rpc[d] = "read"}}

\* the position of a task of the relay
PcOf(t) == IF t[2] = "handler" THEN hpc[t[1]] ELSE rpc[t[1]]

\* C27: no task that sends on or reads from a socket, or waits for one,
\* holds either side of the registry lock; a holder of the write side is
\* alone and is at the map edit of register_client, unregister_client or the
\* clean-up pass, and the only thing it does is that edit, which drops the
\* guard; the map changes only in such a step; a holder of the read side is
\* a broadcast in its loop or a handler logging the count
C27_NoLockAcrossIo ==
    /\ [](/\ SocketWait \cap (lock.r \cup lock.w) = {}
          /\ lock.w # {} => Cardinality(lock.w) = 1 /\ lock.r = {}
          /\ \A t \in lock.w : WaitsWrite(t[1], t[2])
          /\ \A t \in lock.r :
                 \/ t[2] = "recv" /\ rpc[t[1]] = "bc_loop"
                 \/ t[2] = "handler" /\ hpc[t[1]] \in {"reg_log", "unreg_log"}
          /\ \A c \in Conn : <<c, "send">> \notin lock.r \cup lock.w)
    /\ [][/\ \A t \in lock.w :
                 /\ PcOf(t)' # PcOf(t) => t \notin lock'.w
                 /\ t \in lock'.w => clients' = clients
          /\ clients' # clients => \E t \in lock.w : t \notin lock'.w]_vars

\* a clean-up pass holds the write side while another connection's tasks
\* are at their sockets and a third handler waits to register
C27_Witness ==
    \E c \in Conn : \E d \in Conn \ {c} :
        /\ lock.w = {<<c, "recv">>}
        /\ failed_clients[c] # {}
        /\ \/ hpc[d] = "unregister"
           \/ spc[d] = "run" /\ rpc[d] = "read"

\* ---- properties of the telemetry ----

RECURSIVE SumSeq(_)
SumSeq(s) == IF s = <<>> THEN 0 ELSE Head(s) + SumSeq(Tail(s))

\* Telemetry.network_activity of the client
Ring(c) == app[c].network_activity

\* messages_sent + messages_received of the client
Total(c) == app[c].messages_sent + app[c].messages_received

\* the step is an advance of the ring of the client: the once-a-second update
Advance(c) == upc[c] = "tick" /\ upc'[c] # "tick"

\* C31: the activity ring always has 60 slots; an advance moves every sample
\* one place towards the front, dropping the oldest, and its newest sample is
\* the number of messages sent and received since the previous advance (while
\* no sample has left the ring, the total at the previous advance is the sum
\* of the samples); no other step changes the ring
C31_ActivityRing ==
    /\ [](\A c \in Conn : Len(Ring(c)) = ActivitySlots /\ ActivitySlots = 60)
    /\ [][\A c \in Conn :
             /\ Advance(c) =>
                   /\ \A k \in 1..(ActivitySlots - 1) : Ring(c)'[k] = Ring(c)[k + 1]
                   /\ app[c].connection_uptime < ActivitySlots =>
                          Ring(c)'[ActivitySlots] = Total(c) - SumSeq(Ring(c))
                   /\ Total(c)' = Total(c)
             /\ ~Advance(c) => Ring(c)' = Ring(c)]_vars

\* three advances, with one message in the first second, none in the second
\* and two in the third
C31_Witness ==
    \E c \in Conn :
        /\ Ring(c)[ActivitySlots - 2] = 1
        /\ Ring(c)[ActivitySlots - 1] = 0
        /\ Ring(c)[ActivitySlots] = 2
        /\ app[c].messages_sent > 0
        /\ app[c].messages_received > 0

\* ---- the end of network_task ----

\* C32 as claimed: a bridge that connected and has ended has emitted exactly
\* one Disconnected event, and that event is its last one
C32_OneDisconnected ==
    \A c \in Conn :
        (bpc[c] = "done" /\ Count(EvConnected, events[c]) > 0) =>
            /\ Count(EvDisconnected, events[c]) = 1
            /\ events[c][Len(events[c])] = EvDisconnected

\* C33 as claimed: once the bridge has ended and the UI loop has handled
\* every event it emitted, the App shows no connection
C33_EndsDisconnected ==
    \A c \in Conn :
        (bpc[c] = "done" /\ applied[c] = Len(events[c])) => ~app[c].is_connected

\* ---- messages of the peers in the App ----

\* the event the UI loop of c handles in this step
EventApplied(c) == events[c][applied[c] + 1]

\* C34 as claimed: an App holds a pairwise channel only under an id that
\* names its own user, so a message between two other users creates no
\* channel and shows nowhere
C34_OnlyOwnPairs ==
    \A c \in Conn : \A k \in DOMAIN app[c].channels :
        IsDm(k) => \E n \in 2..Len(k) : k[n] = app[c].username

\* C35 as claimed: every channel of the map carries the id it is stored under
C35_IdIsKey ==
    \A c \in Conn : \A k \in DOMAIN app[c].channels : app[c].channels[k].id = k

\* C36 as claimed: every Message event the UI loop handles leaves its message
\* as the newest one of the channel its channel_id names
C36_NoneDropped ==
    [][\A c \in Conn :
          (apply_event(c) /\ EventApplied(c).ev = "Message") =>
              LET e == EventApplied(c)
                  now == MessagesOf(app'[c], e.channel_id)
              IN /\ e.channel_id \in DOMAIN app'[c].channels
                 /\ Len(now) > Len(MessagesOf(app[c], e.channel_id))
                 /\ now[Len(now)] = ChatMessage(e.username, e.content, FALSE)]_vars

\* ---- a send after the end of network_task ----

\* C37 as claimed: a message is echoed and counted only in a step that hands
\* its SendMessage command to a bridge that still runs
C37_EchoNeedsBridge ==
    [][\A c \in Conn :
          app'[c].messages_sent > app[c].messages_sent =>
              /\ bpc[c] # "done"
              /\ Len(cmds'[c]) = Len(cmds[c]) + 1
              /\ cmds'[c][Len(cmds'[c])].cmd = "SendMessage"]_vars

\* ---- what the clean-up pass removes ----

\* C38: every id a broadcast has recorded as failed belongs to a connection
\* whose queue is closed, and the clean-up pass of a broadcast removes only
\* entries whose queue is closed: no entry with an open queue leaves the
\* registry in a step of a broadcast
C38_PruneOnlyClosed ==
    /\ [](\A c \in Conn : \A id \in failed_clients[c] : ~RxOpen(ConnOfId(id)))
    /\ [][\A c \in Conn :
             PruneStep(c) =>
                 \A id \in (DOMAIN clients) \ (DOMAIN clients') : ~RxOpen(clients[id])]_vars

\* a clean-up pass has removed the entry of a connection whose sender task
\* had ended, before its handler unregistered it, and the entry of the
\* broadcasting connection, whose queue is open, is still there
C38_Witness ==
    \E c \in Conn : \E d \in Conn \ {c} :
        /\ hpc[d] \in {"select", "unregister"}
        /\ unregRuns[d] = 0
        /\ ~HasEntry(d)
        /\ ~RxOpen(d)
        /\ rpc[c] = "read"
        /\ ntexts[c] > 0
        /\ HasEntry(c)
        /\ RxOpen(c)

\* ---- the registry lock never blocks for good ----

\* the tasks of the relay
RelayTasks == Conn \X {"handler", "recv", "send"}

\* the task is at clients.write().await or clients.read().await and has not
\* been given the guard
WaitsForLock(t) ==
    \/ t[2] \in {"handler", "recv"} /\ WaitsWrite(t[1], t[2]) /\ t \notin lock.w
    \/ t[2] = "handler" /\ hpc[t[1]] \in {"reg_log", "unreg_log"} /\ t \notin lock.r

\* a register or unregister call has been entered and has not returned (the
\* count that both log is part of them)
InRegister(c) == hpc[c] \in {"next_id", "insert", "reg_log"}
InUnregister(c) == hpc[c] \in {"unregister", "unreg_log"}

\* the connections of a run: Accept takes the slots in order
Accepted == 1..MaxFairConns

\* no task waits for a side of the lock while it holds one, and no task
\* holds both sides
NoHoldAndWait ==
    \A t \in RelayTasks :
        /\ WaitsForLock(t) => t \notin lock.r \cup lock.w
        /\ ~(t \in lock.r /\ t \in lock.w)
        /\ (t[2] = "handler" /\ hpc[t[1]] = "next_id") => t \notin lock.r \cup lock.w

C40_ActiveChannel ==
    /\ [](\A c \in Conn :
              /\ app[c].active_channel \in DOMAIN app[c].channels
              /\ <<"global">> \in DOMAIN app[c].channels
              /\ app[c].channels[app[c].active_channel].unread_count = 0)
    /\ [][\A c \in Conn : DOMAIN app[c].channels \subseteq DOMAIN app'[c].channels]_vars

\* a direct-message channel that collected messages while another channel
\* was active has been made the active one, and the global channel has
\* unread messages of its own
C40_Witness ==
    \E c \in Conn :
        /\ IsDm(app[c].active_channel)
        /\ Len(app[c].channels[app[c].active_channel].messages) > 0
        /\ app[c].channels[<<"global">>].unread_count > 0

====
